---- MODULE Spec2Model ----
(***************************************************************************)
(* State-machine model of the dsa-vision visualizers.  Every visualizer    *)
(* page is a React component: its useState/useRef cells are one record     *)
(* variable, and every async handler that is suspended in `await delay()`  *)
(* is one entry of the page's sequence of suspended invocations.           *)
(* JavaScript is single threaded: a handler, or the continuation of an     *)
(* invocation after its timer fired, runs without interruption up to its   *)
(* next `await delay()` or to its end, so each of those is one action.     *)
(* Array indices are the 0-based indices of the source; At(a, i) reads     *)
(* a[i].                                                                   *)
(***************************************************************************)
EXTENDS Integers, Sequences, FiniteSets, TLC

VARIABLES
  Sorting,      \* useState/useRef cells of the sorting page
  sortRuns,     \* sort invocations suspended in `await delay()`
  Heap,         \* cells of the heap page
  heapRuns,     \* insert/extract/buildHeap invocations suspended in a delay
  heapOps,      \* how many heap operations were started
  Searching,    \* cells of the searching page
  searchRuns,   \* search invocations suspended in a delay
  searchOps,    \* how many handlers of the searching page were invoked
  BinaryTree,   \* cells of the binary tree page
  treeRuns,     \* animateTraversal invocations suspended in a delay
  treeOps,      \* how many handlers of the binary tree page were invoked
  Graph,        \* cells of the graph page
  graphRuns,    \* graph runs suspended in a delay
  graphOps,     \* how many handlers of the graph page were invoked
  HashTable,    \* cells of the hash table page
  hashTimers,   \* pending setTimeout callbacks of the hash table page
  hashOps,      \* how many handlers of the hash table page were invoked
  DP,           \* cells of the recursion / dynamic programming page
  dpRuns,       \* run functions suspended in a delay
  dpTimers,     \* pending 100 ms timers of run(), each with the values it captured
  dpOps,        \* how many handlers of the recursion / DP page were invoked
  Stack,        \* cells of the stack page
  Queue,        \* cells of the queue page
  LinkedList,   \* cells of the linked list page and the file's nextId counter
  listRuns,     \* searchValue / traverse invocations suspended in a delay
  listTimers,   \* pending highlight timers of addAtIndex
  linearOps,    \* how many handlers of these three pages were invoked
  Trie,         \* cells and stopRef of the trie page
  trieRuns,     \* insertWord / searchWord invocations suspended in a delay
  trieOps       \* how many handlers of the trie page were invoked

vars == <<Sorting, sortRuns, Heap, heapRuns, heapOps, Searching, searchRuns, searchOps,
          BinaryTree, treeRuns, treeOps, Graph, graphRuns, graphOps,
          HashTable, hashTimers, hashOps, DP, dpRuns, dpTimers, dpOps,
          Stack, Queue, LinkedList, listRuns, listTimers, linearOps,
          Trie, trieRuns, trieOps>>

sortVars == <<Sorting, sortRuns>>
heapVars == <<Heap, heapRuns, heapOps>>
searchVars == <<Searching, searchRuns, searchOps>>
treeVars == <<BinaryTree, treeRuns, treeOps>>
graphVars == <<Graph, graphRuns, graphOps>>
hashVars == <<HashTable, hashTimers, hashOps>>
dpVars == <<DP, dpRuns, dpTimers, dpOps>>
listVars == <<LinkedList, listRuns, listTimers>>
linearVars == <<Stack, Queue, listVars, linearOps>>
trieVars == <<Trie, trieRuns, trieOps>>

\* the pages other than the one an action belongs to
morePages == <<hashVars, dpVars, linearVars, trieVars>>
notSort == <<heapVars, searchVars, treeVars, graphVars, morePages>>
notHeap == <<sortVars, searchVars, treeVars, graphVars, morePages>>
notSearch == <<sortVars, heapVars, treeVars, graphVars, morePages>>
notTree == <<sortVars, heapVars, searchVars, graphVars, morePages>>
notGraph == <<sortVars, heapVars, searchVars, treeVars, morePages>>
firstPages == <<sortVars, heapVars, searchVars, treeVars, graphVars>>
notHash == <<firstPages, dpVars, linearVars, trieVars>>
notDP == <<firstPages, hashVars, linearVars, trieVars>>
notLinear == <<firstPages, hashVars, dpVars, trieVars>>
notTrie == <<firstPages, hashVars, dpVars, linearVars>>

(***************************************************************************)
(* Bounds of the model.                                                    *)
(***************************************************************************)
MaxLen == 2        \* longest array generated or typed in
MaxVal == 3        \* array values are 1..MaxVal
MaxRuns == 2       \* invocations of one page suspended at once
MaxOps == 3        \* operations started on one page in one behaviour
SearchLen == 3     \* longest array typed into the searching page
GenLen == 2        \* length of the arrays the searching page generates (the page: 20)
MaxBulk == 2       \* most values in one bulk insert
MaxGraphOps == 4   \* handlers of the graph page invoked in one behaviour
TargetExtra == 1   \* search targets are 1 .. MaxVal + TargetExtra
MaxHashOps == 4    \* handlers of the hash table page invoked in one behaviour
MaxDPOps == 3      \* handlers of the recursion / DP page invoked in one behaviour
MaxLinearOps == 5  \* handlers of the stack, queue and list pages in one behaviour
SoloLen == 4       \* longest array sorted by the runs of SpecSortSolo
MaxTrieOps == 6    \* handlers of the trie page invoked in one behaviour

(***************************************************************************)
(* Helpers on 0-based arrays held as sequences.                            *)
(***************************************************************************)
At(a, i) == a[i + 1]

Put(a, i, v) == [a EXCEPT ![i + 1] = v]

Indices(a) == 0 .. (Len(a) - 1)

\* [a[i], a[j]] = [a[j], a[i]]
Swap(a, i, j) == [a EXCEPT ![i + 1] = a[j + 1], ![j + 1] = a[i + 1]]

\* a.slice(from, to)
Slice(a, from, to) == [x \in 1 .. (to - from) |-> a[from + x]]

\* a.map((_, i) => i)
AllIndices(a) == [x \in 1 .. Len(a) |-> x - 1]

RemoveAt(s, k) == [x \in 1 .. (Len(s) - 1) |-> IF x < k THEN s[x] ELSE s[x + 1]]

IsSorted(a) == \A x \in 1 .. (Len(a) - 1) : a[x] <= a[x + 1]

Count(a, v) == Cardinality({x \in 1 .. Len(a) : a[x] = v})

SameMultiset(a, b) ==
  /\ Len(a) = Len(b)
  /\ \A x \in 1 .. Len(a) : Count(a, a[x]) = Count(b, a[x])

ArraysOfLen(n) == [1 .. n -> 1 .. MaxVal]

\* generateArray(size): any array of that length
generateArray(size) == ArraysOfLen(size)

Sizes == 2 .. MaxLen

\* a number field seen through parseInt: NaN, or the number typed
NaN == [nan |-> TRUE, val |-> 0]

Num(v) == [nan |-> FALSE, val |-> v]

StepText(kind, args) == [kind |-> kind, args |-> args]

NoStep == StepText("", <<>>)

Complete == StepText("complete", <<>>)

(***************************************************************************)
(* Sorting page (src/unnamed/part_003).                                    *)
(***************************************************************************)
AlgoType == {"bubble", "selection", "insertion", "merge", "quick"}

SortingInit ==
  [size |-> MaxLen, array |-> [x \in 1 .. MaxLen |-> 1], comparing |-> <<>>,
   sorted |-> <<>>, pivot |-> -1, algo |-> "bubble", running |-> FALSE,
   comparisons |-> 0, swapCount |-> 0, currentStep |-> NoStep,
   stopRef |-> FALSE, compRef |-> 0, swapRef |-> 0]

\* The locals of one activation of a sort function or of its inner helper.
Frame0 ==
  [i |-> 0, j |-> 0, k |-> 0, min |-> 0, start |-> 0, end |-> 0, mid |-> 0,
   left |-> <<>>, right |-> <<>>, low |-> 0, high |-> 0, pivotVal |-> 0,
   ret |-> "finish", leftTags |-> <<>>, rightTags |-> <<>>]

\* What one segment of execution did: counts of the calls made.
Eff0 == [setArray |-> 0, incComp |-> 0, incSwap |-> 0, swaps |-> 0,
         sortedAll |-> FALSE, complete |-> FALSE, sawStop |-> FALSE]

\* An invocation sortFn(arr): its working copy a, its position and locals.
\* evaluated counts the element comparisons a[j] < a[j - 1] that insertionSort
\* has evaluated; tags[x] is the position in arr of the element now at a[x]
\* (leftTags and rightTags of a frame are the tags of its left and right);
\* marked lists the indices the invocation has marked sorted one at a time,
\* each with the value a held there at that moment, and disturbed tells that a
\* swap has since changed the value at one of them
NewSortRun(algo, arr) ==
  [algo |-> algo, arr |-> arr, a |-> arr, pc |-> "begin", resume |-> "begin",
   f |-> Frame0, stack |-> <<>>, cancelled |-> FALSE, evaluated |-> 0,
   tags |-> AllIndices(arr), marked |-> <<>>, disturbed |-> FALSE]

incComp(m) ==
  [m EXCEPT !.ui.compRef = @ + 1, !.ui.comparisons = m.ui.compRef + 1,
            !.eff.incComp = @ + 1]

incSwap(m) ==
  [m EXCEPT !.ui.swapRef = @ + 1, !.ui.swapCount = m.ui.swapRef + 1,
            !.eff.incSwap = @ + 1]

resetCounters(ui) ==
  [ui EXCEPT !.compRef = 0, !.swapRef = 0, !.comparisons = 0, !.swapCount = 0,
             !.currentStep = NoStep, !.pivot = -1]

\* setArray([...a])
setArray(m) == [m EXCEPT !.ui.array = m.t.a, !.eff.setArray = @ + 1]

\* [a[i], a[j]] = [a[j], a[i]] on the working copy
swapA(m, i, j) ==
  [m EXCEPT !.t.a = Swap(m.t.a, i, j), !.t.tags = Swap(m.t.tags, i, j), !.eff.swaps = @ + 1,
            !.t.disturbed = @ \/ /\ At(m.t.a, i) # At(m.t.a, j)
                                 /\ \E e \in 1 .. Len(m.t.marked) : m.t.marked[e].index \in {i, j}]

\* setSorted((p) => [...p, x]) with x other than the index the algorithm marks
markSortedNext(m, x) ==
  LET y == (x + 1) % Len(m.t.a) IN
  [m EXCEPT !.ui.sorted = Append(@, y),
            !.t.marked = Append(@, [index |-> y, value |-> At(m.t.a, y)])]

\* setSorted((p) => [...p, x])
markSorted(m, x) ==
  [m EXCEPT !.ui.sorted = Append(@, x),
            !.t.marked = Append(@, [index |-> x, value |-> At(m.t.a, x)])]

\* A loop test `cond && !stopRef.current` that failed: the flag was read, and
\* read as set, only when cond held (&& short-circuits).
Saw(m, cond) == [m EXCEPT !.eff.sawStop = @ \/ (cond /\ m.ui.stopRef)]

Await(m, resume) == [m EXCEPT !.t.pc = "await", !.t.resume = resume]

Goto(m, pc) == [m EXCEPT !.t.pc = pc]

\* await helper(...) / await qs(...): a nested activation
Call(m, ret, frame) ==
  [m EXCEPT !.t.stack = Append(@, [m.t.f EXCEPT !.ret = ret]), !.t.f = frame]

\* return from helper / qs to the activation that awaited it
Return(m) ==
  IF m.t.stack = <<>> THEN Goto(m, "finish")
  ELSE LET top == m.t.stack[Len(m.t.stack)] IN
       [m EXCEPT !.t.f = top, !.t.pc = top.ret,
                 !.t.stack = SubSeq(@, 1, Len(@) - 1)]

\* setSorted(a.map((_, i) => i)); setCurrentStep("Sorting complete!")
Finish(m) ==
  [m EXCEPT !.ui.sorted = AllIndices(m.t.a), !.ui.currentStep = Complete,
            !.ui.pivot = IF m.t.algo = "quick" THEN -1 ELSE @,
            !.eff.sortedAll = TRUE, !.eff.complete = TRUE,
            !.t.pc = "done"]

bubbleSort(m) ==
  LET a == m.t.a
      f == m.t.f
      n == Len(m.t.a)
      stop == m.ui.stopRef
  IN CASE m.t.pc = "begin" -> Goto([m EXCEPT !.t.f.i = 0], "outer")
       [] m.t.pc = "outer" ->
            IF f.i < n /\ ~stop THEN Goto([m EXCEPT !.t.f.j = 0], "inner")
            ELSE Goto(Saw(m, f.i < n), "finish")
       [] m.t.pc = "inner" ->
            IF f.j < n - f.i - 1 /\ ~stop
            THEN LET m1 == incComp([m EXCEPT
                               !.ui.comparing = <<f.j, f.j + 1>>,
                               !.ui.currentStep = StepText("Comparing",
                                   <<f.j, At(a, f.j), f.j + 1, At(a, f.j + 1)>>)])
                     m2 == IF At(a, f.j) > At(a, f.j + 1)
                           THEN incSwap(swapA(m1, f.j, f.j + 1)) ELSE m1
                 IN Await(setArray(m2), "innerNext")
            ELSE Goto([markSorted(Saw(m, f.j < n - f.i - 1), n - 1 - f.i)
                         EXCEPT !.t.f.i = @ + 1], "outer")
       [] m.t.pc = "innerNext" -> Goto([m EXCEPT !.t.f.j = @ + 1], "inner")

selectionSort(m) ==
  LET a == m.t.a
      f == m.t.f
      n == Len(m.t.a)
      stop == m.ui.stopRef
  IN CASE m.t.pc = "begin" -> Goto([m EXCEPT !.t.f.i = 0], "outer")
       [] m.t.pc = "outer" ->
            IF f.i < n /\ ~stop
            THEN Goto([m EXCEPT !.t.f.min = f.i, !.t.f.j = f.i + 1,
                                !.ui.currentStep = StepText("Finding minimum", <<f.i, n - 1>>)],
                      "inner")
            ELSE Goto(Saw(m, f.i < n), "finish")
       [] m.t.pc = "inner" ->
            IF f.j < n /\ ~stop
            THEN LET m1 == incComp([m EXCEPT !.ui.comparing = <<f.min, f.j>>])
                     m2 == IF At(a, f.j) < At(a, f.min)
                           THEN [m1 EXCEPT !.t.f.min = f.j] ELSE m1
                 IN Await(m2, "innerNext")
            ELSE LET m0 == Saw(m, f.j < n)
                     m1 == IF f.min # f.i
                           THEN incSwap(swapA([m0 EXCEPT !.ui.currentStep =
                                                 StepText("Swapping", <<At(a, f.i), At(a, f.min)>>)],
                                              f.i, f.min))
                           ELSE m0
                     m2 == setArray(m1)
                 IN Goto([markSorted(m2, f.i) EXCEPT !.t.f.i = @ + 1], "outer")
       [] m.t.pc = "innerNext" -> Goto([m EXCEPT !.t.f.j = @ + 1], "inner")

insertionSort(m) ==
  LET a == m.t.a
      f == m.t.f
      n == Len(m.t.a)
      stop == m.ui.stopRef
  IN CASE m.t.pc = "begin" -> Goto([m EXCEPT !.t.f.i = 1], "outer")
       [] m.t.pc = "outer" ->
            IF f.i < n /\ ~stop
            THEN Goto([m EXCEPT !.t.f.j = f.i,
                                !.ui.currentStep = StepText("Inserting", <<At(a, f.i)>>)],
                      "while")
            ELSE Goto(Saw(m, f.i < n), "finish")
       [] m.t.pc = "while" ->
            IF f.j > 0 /\ At(a, f.j) < At(a, f.j - 1) /\ ~stop
            THEN LET m1 == incComp([m EXCEPT !.ui.comparing = <<f.j, f.j - 1>>,
                                             !.t.evaluated = @ + 1])
                     m2 == incSwap(swapA(m1, f.j, f.j - 1))
                 IN Await(setArray(m2), "whileNext")
            ELSE Goto([Saw(m, f.j > 0 /\ At(a, f.j) < At(a, f.j - 1))
                         EXCEPT !.t.f.i = @ + 1,
                                !.t.evaluated = IF f.j > 0 THEN @ + 1 ELSE @], "outer")
       [] m.t.pc = "whileNext" -> Goto([m EXCEPT !.t.f.j = @ - 1], "while")

\* mergeSort with left[i] < right[j] in place of left[i] <= right[j]
mergeSortStrict(m) ==
  LET a == m.t.a
      f == m.t.f
      n == Len(m.t.a)
      stop == m.ui.stopRef
  IN CASE m.t.pc = "begin" ->
            Goto([m EXCEPT !.t.f = [Frame0 EXCEPT !.start = 0, !.end = n - 1]], "helper")
       [] m.t.pc = "helper" ->
            IF f.start >= f.end \/ stop THEN Return(Saw(m, f.start < f.end))
            ELSE LET mid == (f.start + f.end) \div 2
                     m1 == [m EXCEPT !.t.f.mid = mid,
                                     !.ui.currentStep = StepText("Dividing", <<f.start, f.end, mid>>)]
                 IN Goto(Call(m1, "afterLeft",
                              [Frame0 EXCEPT !.start = f.start, !.end = mid]), "helper")
       [] m.t.pc = "afterLeft" ->
            Goto(Call(m, "afterRight",
                      [Frame0 EXCEPT !.start = f.mid + 1, !.end = f.end]), "helper")
       [] m.t.pc = "afterRight" ->
            Goto([m EXCEPT !.t.f.left = Slice(a, f.start, f.mid + 1),
                           !.t.f.right = Slice(a, f.mid + 1, f.end + 1),
                           !.t.f.leftTags = Slice(m.t.tags, f.start, f.mid + 1),
                           !.t.f.rightTags = Slice(m.t.tags, f.mid + 1, f.end + 1),
                           !.t.f.i = 0, !.t.f.j = 0, !.t.f.k = f.start,
                           !.ui.currentStep = StepText("Merging", <<f.start, f.mid, f.mid + 1, f.end>>)],
                 "merge")
       [] m.t.pc = "merge" ->
            IF f.i < Len(f.left) /\ f.j < Len(f.right) /\ ~stop
            THEN LET m1 == incComp([m EXCEPT !.ui.comparing = <<f.k, f.mid + 1 + f.j>>])
                     m2 == IF At(f.left, f.i) < At(f.right, f.j)
                           THEN [m1 EXCEPT !.t.a = Put(a, f.k, At(f.left, f.i)),
                                           !.t.tags = Put(@, f.k, At(f.leftTags, f.i)),
                                           !.t.f.k = @ + 1, !.t.f.i = @ + 1]
                           ELSE incSwap([m1 EXCEPT !.t.a = Put(a, f.k, At(f.right, f.j)),
                                                   !.t.tags = Put(@, f.k, At(f.rightTags, f.j)),
                                                   !.t.f.k = @ + 1, !.t.f.j = @ + 1])
                 IN Await(setArray(m2), "merge")
            ELSE Goto(Saw(m, f.i < Len(f.left) /\ f.j < Len(f.right)), "drainLeft")
       [] m.t.pc = "drainLeft" ->
            IF f.i < Len(f.left) /\ ~stop
            THEN Await(setArray([m EXCEPT !.t.a = Put(a, f.k, At(f.left, f.i)),
                                          !.t.tags = Put(@, f.k, At(f.leftTags, f.i)),
                                          !.t.f.k = @ + 1, !.t.f.i = @ + 1]), "drainLeft")
            ELSE Goto(Saw(m, f.i < Len(f.left)), "drainRight")
       [] m.t.pc = "drainRight" ->
            IF f.j < Len(f.right) /\ ~stop
            THEN Await(setArray([m EXCEPT !.t.a = Put(a, f.k, At(f.right, f.j)),
                                          !.t.tags = Put(@, f.k, At(f.rightTags, f.j)),
                                          !.t.f.k = @ + 1, !.t.f.j = @ + 1]), "drainRight")
            ELSE Return(Saw(m, f.j < Len(f.right)))

mergeSort(m) ==
  LET a == m.t.a
      f == m.t.f
      n == Len(m.t.a)
      stop == m.ui.stopRef
  IN CASE m.t.pc = "begin" ->
            Goto([m EXCEPT !.t.f = [Frame0 EXCEPT !.start = 0, !.end = n - 1]], "helper")
       [] m.t.pc = "helper" ->
            IF f.start >= f.end \/ stop THEN Return(Saw(m, f.start < f.end))
            ELSE LET mid == (f.start + f.end) \div 2
                     m1 == [m EXCEPT !.t.f.mid = mid,
                                     !.ui.currentStep = StepText("Dividing", <<f.start, f.end, mid>>)]
                 IN Goto(Call(m1, "afterLeft",
                              [Frame0 EXCEPT !.start = f.start, !.end = mid]), "helper")
       [] m.t.pc = "afterLeft" ->
            Goto(Call(m, "afterRight",
                      [Frame0 EXCEPT !.start = f.mid + 1, !.end = f.end]), "helper")
       [] m.t.pc = "afterRight" ->
            Goto([m EXCEPT !.t.f.left = Slice(a, f.start, f.mid + 1),
                           !.t.f.right = Slice(a, f.mid + 1, f.end + 1),
                           !.t.f.leftTags = Slice(m.t.tags, f.start, f.mid + 1),
                           !.t.f.rightTags = Slice(m.t.tags, f.mid + 1, f.end + 1),
                           !.t.f.i = 0, !.t.f.j = 0, !.t.f.k = f.start,
                           !.ui.currentStep = StepText("Merging", <<f.start, f.mid, f.mid + 1, f.end>>)],
                 "merge")
       [] m.t.pc = "merge" ->
            IF f.i < Len(f.left) /\ f.j < Len(f.right) /\ ~stop
            THEN LET m1 == incComp([m EXCEPT !.ui.comparing = <<f.k, f.mid + 1 + f.j>>])
                     m2 == IF At(f.left, f.i) <= At(f.right, f.j)
                           THEN [m1 EXCEPT !.t.a = Put(a, f.k, At(f.left, f.i)),
                                           !.t.tags = Put(@, f.k, At(f.leftTags, f.i)),
                                           !.t.f.k = @ + 1, !.t.f.i = @ + 1]
                           ELSE incSwap([m1 EXCEPT !.t.a = Put(a, f.k, At(f.right, f.j)),
                                                   !.t.tags = Put(@, f.k, At(f.rightTags, f.j)),
                                                   !.t.f.k = @ + 1, !.t.f.j = @ + 1])
                 IN Await(setArray(m2), "merge")
            ELSE Goto(Saw(m, f.i < Len(f.left) /\ f.j < Len(f.right)), "drainLeft")
       [] m.t.pc = "drainLeft" ->
            IF f.i < Len(f.left) /\ ~stop
            THEN Await(setArray([m EXCEPT !.t.a = Put(a, f.k, At(f.left, f.i)),
                                          !.t.tags = Put(@, f.k, At(f.leftTags, f.i)),
                                          !.t.f.k = @ + 1, !.t.f.i = @ + 1]), "drainLeft")
            ELSE Goto(Saw(m, f.i < Len(f.left)), "drainRight")
       [] m.t.pc = "drainRight" ->
            IF f.j < Len(f.right) /\ ~stop
            THEN Await(setArray([m EXCEPT !.t.a = Put(a, f.k, At(f.right, f.j)),
                                          !.t.tags = Put(@, f.k, At(f.rightTags, f.j)),
                                          !.t.f.k = @ + 1, !.t.f.j = @ + 1]), "drainRight")
            ELSE Return(Saw(m, f.j < Len(f.right)))

quickSort(m) ==
  LET a == m.t.a
      f == m.t.f
      n == Len(m.t.a)
      stop == m.ui.stopRef
  IN CASE m.t.pc = "begin" ->
            Goto([m EXCEPT !.t.f = [Frame0 EXCEPT !.low = 0, !.high = n - 1]], "qs")
       [] m.t.pc = "qs" ->
            IF f.low >= f.high \/ stop THEN Return(Saw(m, f.low < f.high))
            ELSE Goto([m EXCEPT !.t.f.pivotVal = At(a, f.high),
                                !.ui.pivot = f.high,
                                !.ui.currentStep = StepText("Pivot", <<At(a, f.high), f.high>>),
                                !.t.f.i = f.low - 1, !.t.f.j = f.low], "for")
       [] m.t.pc = "for" ->
            IF f.j < f.high /\ ~stop
            THEN LET m1 == incComp([m EXCEPT !.ui.comparing = <<f.j, f.high>>])
                     m2 == IF At(a, f.j) < f.pivotVal
                           THEN setArray(incSwap(swapA([m1 EXCEPT !.t.f.i = @ + 1],
                                                       f.i + 1, f.j)))
                           ELSE m1
                 IN Await(m2, "forNext")
            ELSE LET m1 == setArray(incSwap(swapA(Saw(m, f.j < f.high), f.i + 1, f.high)))
                     m2 == [markSorted(m1, f.i + 1) EXCEPT !.ui.pivot = -1]
                 IN Goto(Call(m2, "afterLeft",
                              [Frame0 EXCEPT !.low = f.low, !.high = f.i]), "qs")
       [] m.t.pc = "forNext" -> Goto([m EXCEPT !.t.f.j = @ + 1], "for")
       [] m.t.pc = "afterLeft" ->
            Goto(Call(m, "afterRight",
                      [Frame0 EXCEPT !.low = f.i + 2, !.high = f.high]), "qs")
       [] m.t.pc = "afterRight" -> Return(m)

\* One control-flow step of the invocation's sort function.
SortStep(m) ==
  IF m.t.pc = "finish" THEN Finish(m)
  ELSE CASE m.t.algo = "bubble" -> bubbleSort(m)
         [] m.t.algo = "selection" -> selectionSort(m)
         [] m.t.algo = "insertion" -> insertionSort(m)
         [] m.t.algo = "merge" -> mergeSort(m)
         [] m.t.algo = "quick" -> quickSort(m)

RECURSIVE SortToYield(_)
\* Run the invocation up to its next `await delay()` or to its end.
SortToYield(m) ==
  IF m.t.pc \in {"await", "done"} THEN m ELSE SortToYield(SortStep(m))

\* run(), after `await sortFn(array)`: setRunning(false); setComparing([])
AfterSort(m) ==
  IF m.t.pc = "done"
  THEN [m EXCEPT !.ui.running = FALSE, !.ui.comparing = <<>>]
  ELSE m

\* Everything that runs when the delay timer of the invocation t fires.
SortResume(ui, t) ==
  AfterSort(SortToYield([ui |-> ui, t |-> [t EXCEPT !.pc = t.resume], eff |-> Eff0]))

\* The synchronous part of run(): up to the first `await delay()`.
SortStart(ui) ==
  LET ui1 == resetCounters([ui EXCEPT !.stopRef = FALSE, !.running = TRUE,
                                      !.sorted = <<>>, !.comparing = <<>>])
  IN AfterSort(SortToYield([ui |-> ui1, t |-> NewSortRun(ui.algo, ui.array), eff |-> Eff0]))

LiveRuns(m, runs) == IF m.t.pc = "done" THEN runs ELSE Append(runs, m.t)

run ==
  /\ ~Sorting.running
  /\ Len(sortRuns) < MaxRuns
  /\ LET m == SortStart(Sorting) IN
       /\ Sorting' = m.ui
       /\ sortRuns' = LiveRuns(m, sortRuns)
  /\ UNCHANGED notSort

\* The delay timer of the k-th suspended invocation fires.
sortTimer ==
  /\ \E k \in 1 .. Len(sortRuns) :
       LET m == SortResume(Sorting, sortRuns[k]) IN
         /\ Sorting' = m.ui
         /\ sortRuns' = IF m.t.pc = "done" THEN RemoveAt(sortRuns, k)
                        ELSE [sortRuns EXCEPT ![k] = m.t]
  /\ UNCHANGED notSort

reset ==
  /\ \E arr \in generateArray(Sorting.size) :
       Sorting' = [resetCounters([Sorting EXCEPT !.stopRef = TRUE, !.running = FALSE,
                                                !.comparing = <<>>, !.sorted = <<>>])
                    EXCEPT !.array = arr]
  /\ sortRuns' = [k \in 1 .. Len(sortRuns) |-> [sortRuns[k] EXCEPT !.cancelled = TRUE]]
  /\ UNCHANGED notSort

shuffle ==
  /\ ~Sorting.running
  /\ \E arr \in generateArray(Sorting.size) :
       Sorting' = resetCounters([Sorting EXCEPT !.array = arr, !.sorted = <<>>,
                                                !.comparing = <<>>])
  /\ UNCHANGED <<sortRuns, notSort>>

applyCustomArray ==
  /\ ~Sorting.running
  /\ \E n \in Sizes : \E values \in ArraysOfLen(n) :
       Sorting' = resetCounters([Sorting EXCEPT !.array = values, !.size = n,
                                                !.sorted = <<>>, !.comparing = <<>>])
  /\ UNCHANGED <<sortRuns, notSort>>

\* the size slider's onValueChange
setSize ==
  /\ ~Sorting.running
  /\ \E v \in Sizes : \E arr \in generateArray(v) :
       Sorting' = resetCounters([Sorting EXCEPT !.size = v, !.array = arr,
                                                !.sorted = <<>>])
  /\ UNCHANGED <<sortRuns, notSort>>

\* the algorithm buttons' onClick
setAlgo ==
  /\ ~Sorting.running
  /\ \E a \in AlgoType : Sorting' = [Sorting EXCEPT !.algo = a]
  /\ UNCHANGED <<sortRuns, notSort>>

SortNext ==
  \/ run
  \/ sortTimer
  \/ reset
  \/ shuffle
  \/ applyCustomArray
  \/ setSize
  \/ setAlgo

(***************************************************************************)
(* Claims about the sorting page.  SortContinuations is, for every         *)
(* suspended invocation, what the firing of its timer does in the current  *)
(* state.                                                                  *)
(***************************************************************************)
SortContinuations ==
  [k \in 1 .. Len(sortRuns) |-> SortResume(Sorting, sortRuns[k])]

\* C1: a sort run that was not cancelled ends with the displayed array in
\* non-decreasing order and equal as a multiset to the run's input array.
C1_SortedPermutation ==
  /\ \A k \in 1 .. Len(sortRuns) :
       LET m == SortContinuations[k] IN
         (m.t.pc = "done" /\ ~sortRuns[k].cancelled)
           => IsSorted(m.ui.array) /\ SameMultiset(m.ui.array, sortRuns[k].arr)
  /\ ~Sorting.running =>
       LET m == SortStart(Sorting) IN
         m.t.pc = "done"
           => IsSorted(m.ui.array) /\ SameMultiset(m.ui.array, Sorting.array)

\* C2: once reset() has set the stop flag while a run is suspended in its
\* delay, that run swaps no further elements, increments neither counter and
\* publishes no further array.
C2_NoEffectAfterReset ==
  \A k \in 1 .. Len(sortRuns) :
    sortRuns[k].cancelled =>
      LET e == SortContinuations[k].eff IN
        e.swaps = 0 /\ e.incComp = 0 /\ e.incSwap = 0 /\ e.setArray = 0

\* C3: at most one sort invocation is live: never do two suspended
\* invocations both go on to publish the array or increment the counters.
C3_AtMostOneLiveSort ==
  Cardinality({k \in 1 .. Len(sortRuns) :
                 LET e == SortContinuations[k].eff IN
                   e.setArray > 0 \/ e.incComp > 0 \/ e.incSwap > 0}) <= 1

\* C4: a run that has observed the stop flag neither marks every index as
\* sorted nor publishes the completion step text.
C4_CancelledIsNotComplete ==
  \A k \in 1 .. Len(sortRuns) :
    LET e == SortContinuations[k].eff IN
      e.sawStop => ~e.sortedAll /\ ~e.complete

\* the pairs of positions of arr that are out of order
Inversions(arr) ==
  Cardinality({p \in (1 .. Len(arr)) \X (1 .. Len(arr)) : p[1] < p[2] /\ arr[p[1]] > arr[p[2]]})

\* C11: a bubble sort run that was not cancelled ends with the comparison
\* counter at n(n-1)/2 and the swap counter at the number of inversions of the
\* run's input array, n being the length of that array.
C11_BubbleCounts ==
  \A k \in 1 .. Len(sortRuns) :
    LET m == SortContinuations[k]
        n == Len(sortRuns[k].arr)
    IN (sortRuns[k].algo = "bubble" /\ m.t.pc = "done" /\ ~sortRuns[k].cancelled)
         => /\ m.ui.comparisons = (n * (n - 1)) \div 2
            /\ m.ui.swapCount = Inversions(sortRuns[k].arr)

\* C22: when an insertion sort run that Reset did not stop ends, the
\* comparisons counter equals the number of comparisons of a[j] with a[j - 1]
\* that the run evaluated, those that ended an inner loop without a swap
\* included.
C22_InsertionComparisons ==
  /\ [](\A k \in 1 .. Len(sortRuns) :
          LET m == SortContinuations[k] IN
            (sortRuns[k].algo = "insertion" /\ m.t.pc = "done" /\ ~sortRuns[k].cancelled)
              => m.ui.comparisons = m.t.evaluated)
  /\ [][(run /\ Sorting.algo = "insertion" /\ SortStart(Sorting).t.pc = "done")
          => Sorting'.comparisons = SortStart(Sorting).t.evaluated]_vars

\* C23: when an insertion sort or merge sort run that Reset did not stop
\* ends, its array is the input rearranged, in non-decreasing order, and any
\* two elements of equal value stand in the order of their positions in the
\* input.
C23_Stable ==
  \A k \in 1 .. Len(sortRuns) :
    LET r == sortRuns[k]
        m == SortContinuations[k]
        a == m.t.a
        g == m.t.tags
    IN (r.algo \in {"insertion", "merge"} /\ m.t.pc = "done" /\ ~r.cancelled) =>
         /\ IsSorted(a)
         /\ \A x \in 1 .. Len(a) : a[x] = At(r.arr, g[x])
         /\ \A x \in 1 .. Len(a) : \A y \in 1 .. Len(a) :
              (x < y /\ a[x] = a[y]) => g[x] < g[y]

\* a merge sort is about to end having moved elements of an input that
\* holds a value twice, the two not next to each other
C23_Witness ==
  \E k \in 1 .. Len(sortRuns) :
    LET r == sortRuns[k]
        m == SortContinuations[k]
    IN /\ r.algo = "merge" /\ m.t.pc = "done" /\ ~r.cancelled
       /\ Len(r.arr) >= 3
       /\ r.arr[1] = r.arr[3] /\ r.arr[2] < r.arr[1]
       /\ m.t.a # r.arr

\* the value at index x of arr put in non-decreasing order
SortedAt(arr, x) ==
  CHOOSE v \in {arr[y] : y \in 1 .. Len(arr)} :
    /\ Cardinality({y \in 1 .. Len(arr) : arr[y] < v}) <= x
    /\ Cardinality({y \in 1 .. Len(arr) : arr[y] <= v}) > x

\* C39: in a bubble, selection or quick sort run that was not cancelled,
\* every index the run has marked sorted held, when it was marked, the value
\* the fully sorted input has at that index, and the run's array has held that
\* value there ever since; the run ends with every index holding that value.
C39_MarkedIsFinal ==
  \A k \in 1 .. Len(sortRuns) :
    LET r == sortRuns[k]
        m == SortContinuations[k]
    IN (r.algo \in {"bubble", "selection", "quick"} /\ ~r.cancelled) =>
         /\ ~m.t.disturbed
         /\ \A e \in 1 .. Len(m.t.marked) :
              /\ m.t.marked[e].value = SortedAt(r.arr, m.t.marked[e].index)
              /\ At(m.t.a, m.t.marked[e].index) = m.t.marked[e].value
         /\ m.t.pc = "done" => \A x \in Indices(r.arr) : At(m.t.a, x) = SortedAt(r.arr, x)

\* a quick sort of three values or more, none in its final place at the
\* start, has marked its first pivot and goes on swapping
C39_Witness ==
  \E k \in 1 .. Len(sortRuns) :
    LET r == sortRuns[k]
        m == SortContinuations[k]
    IN /\ r.algo = "quick" /\ ~r.cancelled /\ Len(r.arr) >= 3
       /\ \A x \in Indices(r.arr) : At(r.arr, x) # SortedAt(r.arr, x)
       /\ Len(r.marked) >= 1 /\ m.eff.swaps > 0 /\ m.t.a # r.a

(***************************************************************************)
(* Heap page (src/src/pages/HeapVisualizer.tsx).                           *)
(***************************************************************************)
HistoryCap == 10

\* what may be typed into a number field: parseInt gives a number or NaN
NumberInputs == {NaN} \cup {Num(v) : v \in {5, 22, 60}}

\* cleared records that clear() ran and insert has not started since
HeapInit ==
  [heap |-> <<10, 20, 30, 25, 35, 40, 50>>, heapType |-> "min", highlighted |-> <<>>,
   message |-> StepText("", <<>>), running |-> FALSE, history |-> <<>>,
   stopRef |-> FALSE, cleared |-> FALSE]

\* const compare = (a, b) => heapType === "min" ? a < b : a > b
compare(heapType, a, b) == IF heapType = "min" THEN a < b ELSE a > b

\* setHistory((p) => [msg, ...p].slice(0, 10))
addHistory(ui, msg) ==
  [ui EXCEPT !.history = SubSeq(<<msg>> \o @, 1,
                                IF Len(@) + 1 > HistoryCap THEN HistoryCap ELSE Len(@) + 1)]

\* An invocation of insert, extract or buildHeap: its copy arr of the heap, the
\* heapType its compare closed over, and its locals; start is the heap array
\* the invocation found, sifted the indices buildHeap has sifted down from.
NewHeapRun(op, heapType, arr) ==
  [op |-> op, heapType |-> heapType, arr |-> arr, pc |-> "begin", resume |-> "begin",
   i |-> 0, j |-> 0, parent |-> 0, target |-> 0, val |-> 0, root |-> 0,
   cancelled |-> FALSE, start |-> arr, sifted |-> <<>>]

\* the child of index i that a sift-down step swaps with, or i itself
SiftTarget(heapType, arr, i) ==
  LET l == 2 * i + 1
      r == 2 * i + 2
      t1 == IF l < Len(arr) /\ compare(heapType, At(arr, l), At(arr, i)) THEN l ELSE i
  IN IF r < Len(arr) /\ compare(heapType, At(arr, r), At(arr, t1)) THEN r ELSE t1

HeapEff0 == [setHeap |-> 0, sawStop |-> FALSE]

setHeap(m) == [m EXCEPT !.ui.heap = m.t.arr, !.eff.setHeap = @ + 1]

insertRun(m) ==
  LET t == m.t
      stop == m.ui.stopRef
  IN CASE t.pc = "while" ->
            IF t.i > 0 /\ ~stop
            THEN LET parent == (t.i - 1) \div 2 IN
                 [m EXCEPT !.t.parent = parent, !.ui.highlighted = <<t.i, parent>>,
                           !.t.pc = "await", !.t.resume = "afterDelay"]
            ELSE [m EXCEPT !.t.pc = "end", !.eff.sawStop = @ \/ (t.i > 0 /\ stop)]
       [] t.pc = "afterDelay" ->
            IF compare(t.heapType, At(t.arr, t.i), At(t.arr, t.parent))
            THEN setHeap([m EXCEPT !.t.arr = Swap(t.arr, t.i, t.parent),
                                   !.t.i = t.parent, !.t.pc = "while"])
            ELSE [m EXCEPT !.t.pc = "end"]
       [] t.pc = "end" ->
            [m EXCEPT !.ui.highlighted = <<>>,
                      !.ui.message = StepText("Inserted - heap property restored", <<t.val>>),
                      !.ui.running = FALSE, !.t.pc = "done"]

extractRun(m) ==
  LET t == m.t
      stop == m.ui.stopRef
  IN CASE t.pc = "while" ->
            IF ~stop
            THEN LET target == SiftTarget(t.heapType, t.arr, t.i) IN
                 IF target = t.i THEN [m EXCEPT !.t.pc = "end"]
                 ELSE [m EXCEPT !.t.target = target, !.ui.highlighted = <<t.i, target>>,
                                !.t.pc = "await", !.t.resume = "afterDelay"]
            ELSE [m EXCEPT !.t.pc = "end", !.eff.sawStop = TRUE]
       [] t.pc = "afterDelay" ->
            setHeap([m EXCEPT !.t.arr = Swap(t.arr, t.i, t.target),
                              !.t.i = t.target, !.t.pc = "while"])
       [] t.pc = "end" ->
            [m EXCEPT !.ui.highlighted = <<>>,
                      !.ui.message = StepText("Extracted - heap property restored", <<t.root>>),
                      !.ui.running = FALSE, !.t.pc = "done"]

buildHeapRun(m) ==
  LET t == m.t
      stop == m.ui.stopRef
  IN CASE t.pc = "for" ->
            IF t.i >= 0 /\ ~stop
            THEN [m EXCEPT !.t.j = t.i, !.t.pc = "while", !.t.sifted = Append(@, t.i)]
            ELSE [m EXCEPT !.t.pc = "end", !.eff.sawStop = @ \/ (t.i >= 0 /\ stop)]
       [] t.pc = "while" ->
            IF ~stop
            THEN LET target == SiftTarget(t.heapType, t.arr, t.j) IN
                 IF target = t.j THEN [m EXCEPT !.t.i = @ - 1, !.t.pc = "for"]
                 ELSE [m EXCEPT !.t.target = target, !.ui.highlighted = <<t.j, target>>,
                                !.t.pc = "await", !.t.resume = "afterDelay"]
            ELSE [m EXCEPT !.t.i = @ - 1, !.t.pc = "for", !.eff.sawStop = TRUE]
       [] t.pc = "afterDelay" ->
            setHeap([m EXCEPT !.t.arr = Swap(t.arr, t.j, t.target),
                              !.t.j = t.target, !.t.pc = "while"])
       [] t.pc = "end" ->
            [m EXCEPT !.ui = addHistory([m.ui EXCEPT !.highlighted = <<>>,
                                                     !.message = StepText("Heap built!", <<>>),
                                                     !.running = FALSE],
                                        StepText("BUILD_HEAP", <<t.heapType>>)),
                      !.t.pc = "done"]

\* One control-flow step of a heap operation.
HeapStep(m) ==
  CASE m.t.op = "insert" -> insertRun(m)
    [] m.t.op = "extract" -> extractRun(m)
    [] m.t.op = "build" -> buildHeapRun(m)

RECURSIVE HeapToYield(_)
\* Run the operation up to its next `await delay()` or to its end.
HeapToYield(m) ==
  IF m.t.pc \in {"await", "done"} THEN m ELSE HeapToYield(HeapStep(m))

\* Everything that runs when the delay timer of the invocation t fires.
HeapResume(ui, t) ==
  HeapToYield([ui |-> ui, t |-> [t EXCEPT !.pc = t.resume], eff |-> HeapEff0])

\* insert(), the input field holding the number val, up to its first delay
InsertStart(ui, val) ==
  LET arr == Append(ui.heap, val)
      ui1 == addHistory([ui EXCEPT !.running = TRUE, !.stopRef = FALSE, !.heap = arr,
                                   !.cleared = FALSE,
                                   !.message = StepText("Inserted, bubbling up...", <<val>>)],
                        StepText("INSERT", <<val>>))
      t == [NewHeapRun("insert", ui.heapType, arr)
              EXCEPT !.i = Len(arr) - 1, !.val = val, !.pc = "while", !.start = ui.heap]
  IN HeapToYield([ui |-> ui1, t |-> t, eff |-> HeapEff0])

\* extract() on a non-empty heap, up to its first delay
ExtractStart(ui) ==
  LET root == At(ui.heap, 0)
      last == At(ui.heap, Len(ui.heap) - 1)
      arr == SubSeq(Put(ui.heap, 0, last), 1, Len(ui.heap) - 1)
      ui1 == addHistory([ui EXCEPT !.running = TRUE, !.stopRef = FALSE, !.heap = arr,
                                   !.message = StepText("Extracted, heapifying down...", <<root>>)],
                        StepText("EXTRACT", <<root>>))
      t == [NewHeapRun("extract", ui.heapType, arr)
              EXCEPT !.i = 0, !.root = root, !.pc = "while", !.start = ui.heap]
  IN HeapToYield([ui |-> ui1, t |-> t, eff |-> HeapEff0])

\* buildHeap(), up to its first delay
BuildStart(ui) ==
  LET ui1 == [ui EXCEPT !.running = TRUE, !.stopRef = FALSE,
                        !.message = StepText("Building heap...", <<>>)]
      t == [NewHeapRun("build", ui.heapType, ui.heap)
              EXCEPT !.i = (Len(ui.heap) \div 2) - 1, !.pc = "for"]
  IN HeapToYield([ui |-> ui1, t |-> t, eff |-> HeapEff0])

HeapMayStart == Len(heapRuns) < MaxRuns /\ heapOps < MaxOps

HeapStarted(m) ==
  /\ Heap' = m.ui
  /\ heapRuns' = IF m.t.pc = "done" THEN heapRuns ELSE Append(heapRuns, m.t)
  /\ heapOps' = heapOps + 1

insert ==
  /\ HeapMayStart
  /\ \E input \in NumberInputs :
       IF input.nan \/ Heap.running THEN UNCHANGED heapVars
       ELSE HeapStarted(InsertStart(Heap, input.val))
  /\ UNCHANGED notHeap

\* extract without the test of heap.length: on an empty heap root is
\* undefined, arr stays empty, and the message and the history entry are written
extractUnguarded ==
  /\ HeapMayStart
  /\ IF Heap.running THEN UNCHANGED heapVars
     ELSE IF Len(Heap.heap) = 0
     THEN /\ Heap' = addHistory([Heap EXCEPT !.stopRef = FALSE, !.highlighted = <<>>,
                                             !.message = StepText("Extracted undefined - heap property restored", <<>>)],
                                StepText("EXTRACT undefined", <<>>))
          /\ heapRuns' = heapRuns
          /\ heapOps' = heapOps + 1
     ELSE HeapStarted(ExtractStart(Heap))
  /\ UNCHANGED notHeap

extract ==
  /\ HeapMayStart
  /\ IF Len(Heap.heap) = 0 \/ Heap.running THEN UNCHANGED heapVars
     ELSE HeapStarted(ExtractStart(Heap))
  /\ UNCHANGED notHeap

buildHeap ==
  /\ HeapMayStart
  /\ IF Heap.running THEN UNCHANGED heapVars
     ELSE HeapStarted(BuildStart(Heap))
  /\ UNCHANGED notHeap

\* The delay timer of the k-th suspended heap operation fires.
heapTimer ==
  /\ \E k \in 1 .. Len(heapRuns) :
       LET m == HeapResume(Heap, heapRuns[k]) IN
         /\ Heap' = m.ui
         /\ heapRuns' = IF m.t.pc = "done" THEN RemoveAt(heapRuns, k)
                        ELSE [heapRuns EXCEPT ![k] = m.t]
  /\ UNCHANGED <<heapOps, notHeap>>

clear ==
  /\ Heap' = [Heap EXCEPT !.stopRef = TRUE, !.heap = <<>>, !.highlighted = <<>>,
                          !.message = StepText("Heap cleared", <<>>),
                          !.history = <<>>, !.running = FALSE, !.cleared = TRUE]
  /\ heapRuns' = [k \in 1 .. Len(heapRuns) |-> [heapRuns[k] EXCEPT !.cancelled = TRUE]]
  /\ UNCHANGED <<heapOps, notHeap>>

toggleType ==
  /\ IF Heap.running THEN UNCHANGED Heap
     ELSE LET newType == IF Heap.heapType = "min" THEN "max" ELSE "min" IN
          Heap' = [Heap EXCEPT !.heapType = newType,
                               !.message = StepText("Switched", <<newType>>)]
  /\ UNCHANGED <<heapRuns, heapOps, notHeap>>

HeapNext ==
  \/ insert
  \/ extract
  \/ buildHeap
  \/ heapTimer
  \/ clear
  \/ toggleType

(***************************************************************************)
(* Claims about the heap page.                                             *)
(***************************************************************************)
\* heap-order invariant of arr for heapType: no child beats its parent
HeapOrdered(heapType, arr) ==
  \A c \in 1 .. (Len(arr) - 1) :
    LET p == (c - 1) \div 2 IN
      IF heapType = "min" THEN At(arr, p) <= At(arr, c) ELSE At(arr, p) >= At(arr, c)

HeapContinuations ==
  [k \in 1 .. Len(heapRuns) |-> HeapResume(Heap, heapRuns[k])]

\* C5: when an insert, extract or build-heap operation completes, every index
\* with a child in range satisfies the heap order of the selected type.
C5_HeapOrderAfterOperation ==
  /\ \A k \in 1 .. Len(heapRuns) :
       LET m == HeapContinuations[k] IN
         (m.t.pc = "done" /\ ~heapRuns[k].cancelled)
           => HeapOrdered(m.ui.heapType, m.ui.heap)
  /\ ~Heap.running =>
       /\ \A input \in NumberInputs :
            ~input.nan =>
              LET m == InsertStart(Heap, input.val) IN
                m.t.pc = "done" => HeapOrdered(m.ui.heapType, m.ui.heap)
       /\ Len(Heap.heap) > 0 =>
            LET m == ExtractStart(Heap) IN
              m.t.pc = "done" => HeapOrdered(m.ui.heapType, m.ui.heap)
       /\ LET m == BuildStart(Heap) IN
            m.t.pc = "done" => HeapOrdered(m.ui.heapType, m.ui.heap)

\* C24: extract pressed while the heap is empty changes nothing: the heap
\* stays empty, running stays false, the history gets no entry, and no
\* operation is started (an empty heap is never shown with running true).
C24_ExtractOnEmpty ==
  /\ [](Len(Heap.heap) = 0 => ~Heap.running)
  /\ [][(extract /\ Len(Heap.heap) = 0)
          => /\ Heap'.heap = <<>> /\ ~Heap'.running
             /\ Heap'.history = Heap.history
             /\ Heap' = Heap /\ heapRuns' = heapRuns]_vars

\* the heap was emptied by extractions, their entries are in the history, and
\* Extract can be pressed again
C24_Witness ==
  /\ Len(Heap.heap) = 0 /\ ~Heap.running /\ HeapMayStart
  /\ Len(Heap.history) > 0 /\ Heap.history[1].kind = "EXTRACT"

Values(arr) == {arr[x] : x \in 1 .. Len(arr)}

\* arr holds the values of base, and v once more (by = 1) or once less (by = -1)
ChangedByOne(arr, base, v, by) ==
  \A w \in Values(arr) \cup Values(base) \cup {v} :
    Count(arr, w) = Count(base, w) + (IF w = v THEN by ELSE 0)

\* v is the minimum of arr for the min type, the maximum for the max type
IsExtreme(heapType, arr, v) ==
  \A x \in 1 .. Len(arr) : IF heapType = "min" THEN v <= arr[x] ELSE v >= arr[x]

\* what C26 says of an insert or extract that found the array start ordered
\* for the type and has just completed, the page then being ui
InsertExtractCorrect(t, ui) ==
  HeapOrdered(t.heapType, t.start) =>
    /\ HeapOrdered(ui.heapType, ui.heap)
    /\ t.op = "insert" => ChangedByOne(ui.heap, t.start, t.val, 1)
    /\ t.op = "extract" =>
         /\ t.root = At(t.start, 0)
         /\ IsExtreme(t.heapType, t.start, t.root)
         /\ ChangedByOne(ui.heap, t.start, t.root, -1)

\* C26: an insert or extract that found the heap array ordered for the
\* selected type and that Clear did not stop leaves, when it completes, an
\* array ordered for the type; insert has added exactly the inserted value,
\* extract has removed exactly one occurrence of the root, which was the
\* minimum (min type) or maximum (max type).
C26_InsertExtract ==
  /\ \A k \in 1 .. Len(heapRuns) :
       LET m == HeapContinuations[k] IN
         (m.t.op \in {"insert", "extract"} /\ m.t.pc = "done" /\ ~heapRuns[k].cancelled)
           => InsertExtractCorrect(m.t, m.ui)
  /\ ~Heap.running =>
       /\ \A input \in NumberInputs :
            ~input.nan =>
              LET m == InsertStart(Heap, input.val) IN
                m.t.pc = "done" => InsertExtractCorrect(m.t, m.ui)
       /\ Len(Heap.heap) > 0 =>
            LET m == ExtractStart(Heap) IN
              m.t.pc = "done" => InsertExtractCorrect(m.t, m.ui)

\* C30: from clear() until insert next starts the heap array is empty, also
\* when clear() was pressed while an insert, extract or build-heap run was
\* suspended in its delay.
C30_ClearedStaysEmpty == Heap.cleared => Heap.heap = <<>>

\* what C27 says of a buildHeap that has just completed, the page then being ui
BuildCorrect(t, ui) ==
  LET n == Len(t.start) IN
    /\ HeapOrdered(ui.heapType, ui.heap)
    /\ Len(ui.heap) = n
    /\ \A w \in Values(ui.heap) \cup Values(t.start) : Count(ui.heap, w) = Count(t.start, w)
    /\ t.sifted = [x \in 1 .. (n \div 2) |-> (n \div 2) - x]

\* C27: a buildHeap that Clear did not stop leaves, when it completes, an
\* array with the values it found, each as many times, ordered for the
\* selected type, having sifted down from index floor(n/2)-1 to index 0.
C27_BuildHeap ==
  /\ \A k \in 1 .. Len(heapRuns) :
       LET m == HeapContinuations[k] IN
         (m.t.op = "build" /\ m.t.pc = "done" /\ ~heapRuns[k].cancelled)
           => BuildCorrect(m.t, m.ui)
  /\ ~Heap.running =>
       LET m == BuildStart(Heap) IN m.t.pc = "done" => BuildCorrect(m.t, m.ui)

(***************************************************************************)
(* Searching page (src/src/pages/SearchingVisualizer.tsx, the              *)
(* SearchingVisualizer component of lines 200-469).                        *)
(***************************************************************************)
RECURSIVE InsertSorted(_, _)
InsertSorted(a, v) ==
  IF a = <<>> THEN <<v>>
  ELSE IF v < Head(a) THEN <<v>> \o a
  ELSE <<Head(a)>> \o InsertSorted(Tail(a), v)

RECURSIVE SortAsc(_)
\* values.sort((a, b) => a - b)
SortAsc(a) == IF a = <<>> THEN <<>> ELSE InsertSorted(SortAsc(Tail(a)), Head(a))

\* Array.from({length}, (_, i) => i * 3 + Math.floor(Math.random() * 3) + 1).sort(...)
RandomSortedArrays ==
  {SortAsc(a) : a \in {b \in [1 .. GenLen -> 1 .. (3 * GenLen)] :
                         \A x \in 1 .. GenLen : b[x] \in ((x - 1) * 3 + 1) .. ((x - 1) * 3 + 3)}}

\* a sorted array of seven values typed into the custom-array field
SevenValues == <<1, 4, 7, 10, 13, 16, 19>>

\* the target field seen through parseInt: NaN or a number
TargetInputs == {NaN} \cup {Num(v) : v \in (1 .. (MaxVal + TargetExtra)) \cup {13}}

\* the custom-array field after split, parseInt and the NaN filter
CustomArrays == UNION {ArraysOfLen(n) : n \in 0 .. SearchLen} \cup {SevenValues}

SearchType == {"linear", "binary"}

SearchingInit ==
  [array |-> [x \in 1 .. GenLen |-> (x - 1) * 3 + 1], target |-> NaN,
   current |-> -1, found |-> -1, visited |-> <<>>, range |-> <<-1, -1>>,
   algo |-> "linear", running |-> FALSE, message |-> NoStep, stepCount |-> 0,
   currentStep |-> NoStep, stopRef |-> FALSE, stepRef |-> 0]

SearchEff0 ==
  [setCurrent |-> 0, setVisited |-> 0, incStep |-> 0, setFound |-> 0, setMessage |-> 0,
   notFound |-> FALSE, sawStop |-> FALSE]

\* An invocation of run(): the target t it parsed, the array of the render it
\* closed over, the locals of the search function, and the indices it examined.
NewSearchRun(algo, t, arr) ==
  [algo |-> algo, t |-> t, array |-> arr, pc |-> "begin", resume |-> "begin",
   i |-> 0, low |-> 0, high |-> 0, mid |-> 0, examined |-> <<>>, cancelled |-> FALSE]

searchReset(ui) ==
  [ui EXCEPT !.stopRef = TRUE, !.running = FALSE, !.current = -1, !.found = -1,
             !.visited = <<>>, !.range = <<-1, -1>>, !.message = NoStep,
             !.stepCount = 0, !.currentStep = NoStep, !.stepRef = 0]

incStep(m) ==
  [m EXCEPT !.ui.stepRef = @ + 1, !.ui.stepCount = m.ui.stepRef + 1, !.eff.incStep = @ + 1]

\* setCurrent(i); setVisited((p) => [...p, i]); incStep(); setCurrentStep(...)
examine(m, i, text) ==
  LET m1 == [m EXCEPT !.ui.current = i, !.ui.visited = Append(@, i),
                      !.eff.setCurrent = @ + 1, !.eff.setVisited = @ + 1,
                      !.t.examined = Append(@, i)]
  IN [incStep(m1) EXCEPT !.ui.currentStep = text]

\* setFound(i); setMessage(`Found ${t} at index ${i} in ${stepRef.current} steps!`)
reportFound(m, i) ==
  [m EXCEPT !.ui.found = i,
            !.ui.message = StepText("found", <<m.t.t, i, m.ui.stepRef>>),
            !.eff.setFound = @ + 1, !.eff.setMessage = @ + 1]

reportNotFound(m) ==
  [m EXCEPT !.ui.message = StepText("not found", <<m.t.t>>),
            !.eff.setMessage = @ + 1, !.eff.notFound = TRUE]

\* linearSearch with the scan stopping one element early
linearSearchStopsEarly(m) ==
  LET t == m.t
      stop == m.ui.stopRef
  IN CASE t.pc = "begin" -> [m EXCEPT !.t.i = 0, !.t.pc = "for"]
       [] t.pc = "for" ->
            IF t.i < Len(t.array) - 1 /\ ~stop
            THEN [examine(m, t.i, StepText("Checking index", <<t.i, At(t.array, t.i), t.t>>))
                    EXCEPT !.t.pc = "await", !.t.resume = "afterDelay"]
            ELSE [m EXCEPT !.t.pc = "notFound",
                           !.eff.sawStop = @ \/ (t.i < Len(t.array) /\ stop)]
       [] t.pc = "afterDelay" ->
            IF At(t.array, t.i) = t.t
            THEN [reportFound(m, t.i) EXCEPT !.t.pc = "return"]
            ELSE [m EXCEPT !.t.i = @ + 1, !.t.pc = "for"]
       [] t.pc = "notFound" -> [reportNotFound(m) EXCEPT !.t.pc = "return"]

linearSearch(m) ==
  LET t == m.t
      stop == m.ui.stopRef
  IN CASE t.pc = "begin" -> [m EXCEPT !.t.i = 0, !.t.pc = "for"]
       [] t.pc = "for" ->
            IF t.i < Len(t.array) /\ ~stop
            THEN [examine(m, t.i, StepText("Checking index", <<t.i, At(t.array, t.i), t.t>>))
                    EXCEPT !.t.pc = "await", !.t.resume = "afterDelay"]
            ELSE [m EXCEPT !.t.pc = "notFound",
                           !.eff.sawStop = @ \/ (t.i < Len(t.array) /\ stop)]
       [] t.pc = "afterDelay" ->
            IF At(t.array, t.i) = t.t
            THEN [reportFound(m, t.i) EXCEPT !.t.pc = "return"]
            ELSE [m EXCEPT !.t.i = @ + 1, !.t.pc = "for"]
       [] t.pc = "notFound" -> [reportNotFound(m) EXCEPT !.t.pc = "return"]

\* binarySearch continuing in the other half
binarySearchOtherHalf(m) ==
  LET t == m.t
      stop == m.ui.stopRef
  IN CASE t.pc = "begin" ->
            [m EXCEPT !.t.low = 0, !.t.high = Len(t.array) - 1, !.t.pc = "while"]
       [] t.pc = "while" ->
            IF t.low <= t.high /\ ~stop
            THEN LET mid == (t.low + t.high) \div 2
                     m1 == [m EXCEPT !.ui.range = <<t.low, t.high>>, !.t.mid = mid]
                 IN [examine(m1, mid, StepText("Range", <<t.low, t.high, mid, At(t.array, mid), t.t>>))
                       EXCEPT !.t.pc = "await", !.t.resume = "afterDelay"]
            ELSE [m EXCEPT !.t.pc = "notFound",
                           !.eff.sawStop = @ \/ (t.low <= t.high /\ stop)]
       [] t.pc = "afterDelay" ->
            IF At(t.array, t.mid) = t.t
            THEN [reportFound(m, t.mid) EXCEPT !.t.pc = "return"]
            ELSE IF At(t.array, t.mid) > t.t
                 THEN [m EXCEPT !.t.low = t.mid + 1, !.t.pc = "while"]
                 ELSE [m EXCEPT !.t.high = t.mid - 1, !.t.pc = "while"]
       [] t.pc = "notFound" -> [reportNotFound(m) EXCEPT !.t.pc = "return"]

\* binarySearch with the midpoint rounded up
binarySearchCeilMid(m) ==
  LET t == m.t
      stop == m.ui.stopRef
  IN CASE t.pc = "begin" ->
            [m EXCEPT !.t.low = 0, !.t.high = Len(t.array) - 1, !.t.pc = "while"]
       [] t.pc = "while" ->
            IF t.low <= t.high /\ ~stop
            THEN LET mid == (t.low + t.high + 1) \div 2
                     m1 == [m EXCEPT !.ui.range = <<t.low, t.high>>, !.t.mid = mid]
                 IN [examine(m1, mid, StepText("Range", <<t.low, t.high, mid, At(t.array, mid), t.t>>))
                       EXCEPT !.t.pc = "await", !.t.resume = "afterDelay"]
            ELSE [m EXCEPT !.t.pc = "notFound",
                           !.eff.sawStop = @ \/ (t.low <= t.high /\ stop)]
       [] t.pc = "afterDelay" ->
            IF At(t.array, t.mid) = t.t
            THEN [reportFound(m, t.mid) EXCEPT !.t.pc = "return"]
            ELSE IF At(t.array, t.mid) < t.t
                 THEN [m EXCEPT !.t.low = t.mid + 1, !.t.pc = "while"]
                 ELSE [m EXCEPT !.t.high = t.mid - 1, !.t.pc = "while"]
       [] t.pc = "notFound" -> [reportNotFound(m) EXCEPT !.t.pc = "return"]

binarySearch(m) ==
  LET t == m.t
      stop == m.ui.stopRef
  IN CASE t.pc = "begin" ->
            [m EXCEPT !.t.low = 0, !.t.high = Len(t.array) - 1, !.t.pc = "while"]
       [] t.pc = "while" ->
            IF t.low <= t.high /\ ~stop
            THEN LET mid == (t.low + t.high) \div 2
                     m1 == [m EXCEPT !.ui.range = <<t.low, t.high>>, !.t.mid = mid]
                 IN [examine(m1, mid, StepText("Range", <<t.low, t.high, mid, At(t.array, mid), t.t>>))
                       EXCEPT !.t.pc = "await", !.t.resume = "afterDelay"]
            ELSE [m EXCEPT !.t.pc = "notFound",
                           !.eff.sawStop = @ \/ (t.low <= t.high /\ stop)]
       [] t.pc = "afterDelay" ->
            IF At(t.array, t.mid) = t.t
            THEN [reportFound(m, t.mid) EXCEPT !.t.pc = "return"]
            ELSE IF At(t.array, t.mid) < t.t
                 THEN [m EXCEPT !.t.low = t.mid + 1, !.t.pc = "while"]
                 ELSE [m EXCEPT !.t.high = t.mid - 1, !.t.pc = "while"]
       [] t.pc = "notFound" -> [reportNotFound(m) EXCEPT !.t.pc = "return"]

\* One control-flow step of run(): the search function, then setRunning(false).
SearchStep(m) ==
  IF m.t.pc = "return" THEN [m EXCEPT !.ui.running = FALSE, !.t.pc = "done"]
  ELSE IF m.t.algo = "linear" THEN linearSearch(m)
  ELSE binarySearch(m)

RECURSIVE SearchToYield(_)
SearchToYield(m) ==
  IF m.t.pc \in {"await", "done"} THEN m ELSE SearchToYield(SearchStep(m))

\* Everything that runs when the delay timer of the invocation t fires.
SearchResume(ui, t) ==
  SearchToYield([ui |-> ui, t |-> [t EXCEPT !.pc = t.resume], eff |-> SearchEff0])

\* run() with a numeric target, up to its first delay
SearchStart(ui) ==
  LET ui1 == [searchReset(ui) EXCEPT !.stopRef = FALSE, !.running = TRUE]
  IN SearchToYield([ui |-> ui1, t |-> NewSearchRun(ui.algo, ui.target.val, ui.array),
                    eff |-> SearchEff0])

\* reset() as the suspended invocations see it: every one of them is cancelled
CancelSearches(runs) == [k \in 1 .. Len(runs) |-> [runs[k] EXCEPT !.cancelled = TRUE]]

SearchMayAct == searchOps < MaxOps

setTarget ==
  /\ \E input \in TargetInputs : Searching' = [Searching EXCEPT !.target = input]
  /\ UNCHANGED <<searchRuns, searchOps, notSearch>>

\* The Search button (disabled while running) or Enter in the target field.
searchRun ==
  /\ Len(searchRuns) < MaxRuns /\ SearchMayAct
  /\ searchOps' = searchOps + 1
  /\ IF Searching.target.nan THEN UNCHANGED <<Searching, searchRuns>>
     ELSE LET m == SearchStart(Searching) IN
          /\ Searching' = m.ui
          /\ searchRuns' = IF m.t.pc = "done" THEN CancelSearches(searchRuns)
                           ELSE Append(CancelSearches(searchRuns), m.t)
  /\ UNCHANGED notSearch

searchTimer ==
  /\ \E k \in 1 .. Len(searchRuns) :
       LET m == SearchResume(Searching, searchRuns[k]) IN
         /\ Searching' = m.ui
         /\ searchRuns' = IF m.t.pc = "done" THEN RemoveAt(searchRuns, k)
                          ELSE [searchRuns EXCEPT ![k] = m.t]
  /\ UNCHANGED <<searchOps, notSearch>>

\* the New Array button
regenerate ==
  /\ SearchMayAct
  /\ searchOps' = searchOps + 1
  /\ \E arr \in RandomSortedArrays :
       Searching' = [searchReset(Searching) EXCEPT !.array = arr]
  /\ searchRuns' = CancelSearches(searchRuns)
  /\ UNCHANGED notSearch

searchApplyCustomArray ==
  /\ SearchMayAct
  /\ searchOps' = searchOps + 1
  /\ \E values \in CustomArrays :
       IF Searching.running \/ Len(values) < 2 THEN UNCHANGED <<Searching, searchRuns>>
       ELSE /\ Searching' = [searchReset(Searching) EXCEPT
                               !.array = IF Searching.algo = "binary" THEN SortAsc(values)
                                         ELSE values]
            /\ searchRuns' = CancelSearches(searchRuns)
  /\ UNCHANGED notSearch

\* the algorithm selector: if (!running) { setAlgo(a); reset(); }
searchSetAlgo ==
  /\ SearchMayAct
  /\ searchOps' = searchOps + 1
  /\ \E a \in SearchType :
       IF Searching.running THEN UNCHANGED <<Searching, searchRuns>>
       ELSE /\ Searching' = [searchReset(Searching) EXCEPT !.algo = a]
            /\ searchRuns' = CancelSearches(searchRuns)
  /\ UNCHANGED notSearch

SearchNext ==
  \/ setTarget
  \/ searchRun
  \/ searchTimer
  \/ regenerate
  \/ searchApplyCustomArray
  \/ searchSetAlgo

(***************************************************************************)
(* Claims about the searching page.                                        *)
(***************************************************************************)
SearchContinuations ==
  [k \in 1 .. Len(searchRuns) |-> SearchResume(Searching, searchRuns[k])]

\* the indices of arr holding the value t
Matches(arr, t) == {i \in Indices(arr) : At(arr, i) = t}

Lowest(S) == CHOOSE i \in S : \A j \in S : i <= j

\* <<0, 1, ..., n - 1>>
UpTo(n) == [x \in 1 .. n |-> x - 1]

IsFound(message, t, i) ==
  message.kind = "found" /\ message.args[1] = t /\ message.args[2] = i

IsNotFound(message, t) == message = StepText("not found", <<t>>)

\* C6: a linear search that is not cancelled examines the indices 0, 1, 2, ...
\* in order, one per step and none after a match, and ends reporting the lowest
\* index holding the target, or not found when no element equals the target.
C6_LinearSearchLowestIndex ==
  \A k \in 1 .. Len(searchRuns) :
    LET r == searchRuns[k]
        m == SearchContinuations[k]
        hits == Matches(r.array, r.t)
    IN (r.algo = "linear" /\ ~r.cancelled) =>
         /\ r.examined = UpTo(r.i + 1)
         /\ \A x \in 0 .. (r.i - 1) : At(r.array, x) # r.t
         /\ Len(m.t.examined) <= Len(r.examined) + 1
         /\ m.t.pc = "done" =>
              /\ m.t.examined = r.examined
              /\ IF hits # {}
                 THEN /\ m.ui.found = Lowest(hits)
                      /\ IsFound(m.ui.message, r.t, Lowest(hits))
                      /\ r.examined = UpTo(Lowest(hits) + 1)
                 ELSE /\ IsNotFound(m.ui.message, r.t)
                      /\ m.eff.setFound = 0
                      /\ r.examined = UpTo(Len(r.array))

\* a linear search finds its target at an index above 0 in an array that
\* holds the target twice
C6_Witness ==
  \E k \in 1 .. Len(searchRuns) :
    LET r == searchRuns[k]
        m == SearchContinuations[k]
    IN /\ r.algo = "linear" /\ ~r.cancelled /\ m.t.pc = "done"
       /\ Cardinality(Matches(r.array, r.t)) >= 2
       /\ m.ui.found >= 1

\* C7: a binary search that is not cancelled, on an array sorted in
\* non-decreasing order, ends reporting an index that holds the target when the
\* target occurs and not found otherwise; every step strictly shrinks the
\* interval [low, high].
C7_BinarySearchSorted ==
  \A k \in 1 .. Len(searchRuns) :
    LET r == searchRuns[k]
        m == SearchContinuations[k]
        hits == Matches(r.array, r.t)
    IN (r.algo = "binary" /\ ~r.cancelled) =>
         /\ 0 <= r.low /\ r.low <= r.mid /\ r.mid <= r.high /\ r.high < Len(r.array)
         /\ m.t.pc = "await" =>
              /\ m.t.low <= m.t.high
              /\ m.t.high - m.t.low < r.high - r.low
              /\ r.low <= m.t.low /\ m.t.high <= r.high
         /\ (m.t.pc = "done" /\ IsSorted(r.array)) =>
              IF hits # {}
              THEN /\ m.ui.found \in hits
                   /\ IsFound(m.ui.message, r.t, m.ui.found)
              ELSE /\ IsNotFound(m.ui.message, r.t)
                   /\ m.eff.setFound = 0

\* a binary search finds its target after it has narrowed the interval twice
C7_Witness ==
  \E k \in 1 .. Len(searchRuns) :
    LET r == searchRuns[k]
        m == SearchContinuations[k]
    IN /\ r.algo = "binary" /\ ~r.cancelled /\ m.t.pc = "done"
       /\ IsSorted(r.array) /\ Len(r.examined) >= 2
       /\ m.ui.found = r.mid /\ At(r.array, r.mid) = r.t


\* C12: a binary search that is not cancelled evaluates one midpoint
\* floor((low + high) / 2) per step and goes on with low = mid + 1 when the
\* value there is below the target and with high = mid - 1 when it is above;
\* it reports not found only with low above high.  On [1,4,7,10,13,16,19] the
\* target 13 is found at index 4 after the midpoints 3, 5, 4 and the target 2
\* is reported not found.
C12_BinaryMidpoints ==
  \A k \in 1 .. Len(searchRuns) :
    LET r == searchRuns[k]
        m == SearchContinuations[k]
    IN (r.algo = "binary" /\ ~r.cancelled) =>
         /\ r.mid = (r.low + r.high) \div 2
         /\ r.examined # <<>> /\ r.examined[Len(r.examined)] = r.mid
         /\ (Len(r.examined) = 1) => (r.low = 0 /\ r.high = Len(r.array) - 1)
         /\ m.t.pc = "await" =>
              /\ m.t.examined = Append(r.examined, m.t.mid)
              /\ m.t.mid = (m.t.low + m.t.high) \div 2
              /\ At(r.array, r.mid) # r.t
              /\ IF At(r.array, r.mid) < r.t
                 THEN m.t.low = r.mid + 1 /\ m.t.high = r.high
                 ELSE m.t.low = r.low /\ m.t.high = r.mid - 1
         /\ m.t.pc = "done" =>
              /\ m.t.examined = r.examined
              /\ m.eff.notFound => m.t.low > m.t.high
              /\ m.eff.notFound \/ (m.ui.found = r.mid /\ At(r.array, r.mid) = r.t)
              /\ (r.array = SevenValues /\ r.t = 13) =>
                   /\ r.examined = <<3, 5, 4>>
                   /\ m.ui.found = 4 /\ IsFound(m.ui.message, 13, 4)
              /\ (r.array = SevenValues /\ r.t = 2) =>
                   /\ IsNotFound(m.ui.message, 2) /\ m.eff.setFound = 0
                   /\ r.examined = <<3, 1, 0>>

\* the binary search for 13 in [1,4,7,10,13,16,19] ends after its third
\* midpoint
C12_Witness ==
  \E k \in 1 .. Len(searchRuns) :
    LET r == searchRuns[k]
        m == SearchContinuations[k]
    IN /\ r.algo = "binary" /\ ~r.cancelled /\ m.t.pc = "done"
       /\ r.array = SevenValues /\ r.t = 13
       /\ r.examined = <<3, 5, 4>> /\ m.ui.found = 4

\* C14: once run() has started a new search, a search that was suspended in
\* its delay at that moment publishes no further current index, visited
\* entry, step count or result.  The invocations are kept in the order they
\* started, so every invocation before another one was suspended when that
\* one started.
C14_EarlierSearchCancelled ==
  \A k \in 1 .. Len(searchRuns) : \A j \in 1 .. Len(searchRuns) :
    k < j =>
      LET e == SearchContinuations[k].eff IN
        /\ e.setCurrent = 0 /\ e.setVisited = 0 /\ e.incStep = 0
        /\ e.setFound = 0 /\ e.setMessage = 0

\* C29: every binary search that has started found the displayed array in
\* non-decreasing order, whatever New Array, custom arrays and algorithm
\* selections came before.
C29_BinaryStartsSorted ==
  /\ [](\A k \in 1 .. Len(searchRuns) :
          searchRuns[k].algo = "binary" => IsSorted(searchRuns[k].array))
  /\ [][(searchRun /\ Searching.algo = "binary" /\ Searching'.running)
          => IsSorted(Searching.array)]_vars

\* C33: a search, stopped by Reset or New Array or not, publishes the
\* 'not found' message only if no element of the array it searches equals
\* its target.
C33_NotFoundOnlyIfAbsent ==
  \A k \in 1 .. Len(searchRuns) :
    SearchContinuations[k].eff.notFound
      => Matches(searchRuns[k].array, searchRuns[k].t) = {}

(***************************************************************************)
(* Binary tree page (src/src/pages/BinaryTreeVisualizer.tsx).              *)
(* A TreeNode {value, left, right} is the tuple <<value, left, right>>;    *)
(* an absent child (undefined) is the empty tuple.                         *)
(***************************************************************************)
undefined == <<>>

TreeNode(value, left, right) == <<value, left, right>>

value(n) == n[1]

left(n) == n[2]

right(n) == n[3]

RECURSIVE insertBSTDup(_, _)
\* insertBST with the equal case sent to the left subtree
insertBSTDup(root, val) ==
  IF root = undefined THEN TreeNode(val, undefined, undefined)
  ELSE IF val <= value(root) THEN TreeNode(value(root), insertBSTDup(left(root), val), right(root))
  ELSE TreeNode(value(root), left(root), insertBSTDup(right(root), val))

RECURSIVE insertBST(_, _)
insertBST(root, val) ==
  IF root = undefined THEN TreeNode(val, undefined, undefined)
  ELSE IF val < value(root) THEN TreeNode(value(root), insertBST(left(root), val), right(root))
  ELSE IF val > value(root) THEN TreeNode(value(root), left(root), insertBST(right(root), val))
  ELSE root

RECURSIVE countNodes(_)
countNodes(root) ==
  IF root = undefined THEN 0 ELSE 1 + countNodes(left(root)) + countNodes(right(root))

RECURSIVE LevelOrderLoop(_, _)
\* while (queue.length > 0) { node = queue.shift(); if (node) { push value; push children } }
LevelOrderLoop(queue, result) ==
  IF queue = <<>> THEN result
  ELSE LET node == Head(queue) IN
       IF node # undefined
       THEN LevelOrderLoop(Tail(queue) \o <<left(node), right(node)>>, Append(result, value(node)))
       ELSE LevelOrderLoop(Tail(queue), result)

RECURSIVE getTraversalRootLast(_, _)
\* getTraversal with the preorder case listing the root after its left subtree
getTraversalRootLast(root, type) ==
  IF root = undefined THEN <<>>
  ELSE IF type = "inorder"
       THEN getTraversalRootLast(left(root), type) \o <<value(root)>> \o getTraversalRootLast(right(root), type)
  ELSE IF type = "preorder"
       THEN getTraversalRootLast(left(root), type) \o <<value(root)>> \o getTraversalRootLast(right(root), type)
  ELSE IF type = "postorder"
       THEN getTraversalRootLast(left(root), type) \o getTraversalRootLast(right(root), type) \o <<value(root)>>
  ELSE LevelOrderLoop(<<root>>, <<>>)

RECURSIVE getTraversal(_, _)
getTraversal(root, type) ==
  IF root = undefined THEN <<>>
  ELSE IF type = "inorder"
       THEN getTraversal(left(root), type) \o <<value(root)>> \o getTraversal(right(root), type)
  ELSE IF type = "preorder"
       THEN <<value(root)>> \o getTraversal(left(root), type) \o getTraversal(right(root), type)
  ELSE IF type = "postorder"
       THEN getTraversal(left(root), type) \o getTraversal(right(root), type) \o <<value(root)>>
  ELSE LevelOrderLoop(<<root>>, <<>>)

RECURSIVE InsertAll(_, _)
\* values.forEach((v) => (r = insertBST(r, v)))
InsertAll(r, values) ==
  IF values = <<>> THEN r ELSE InsertAll(insertBST(r, Head(values)), Tail(values))

InitialValues == <<50, 30, 70, 20, 40, 60, 80>>

\* the numbers that may be typed into the value field, seen through parseInt
TreeValues == {30, 45, 65}

TreeInputs == {NaN} \cup {Num(v) : v \in TreeValues}

\* the bulk field after split, parseInt and the NaN filter
BulkInputs == UNION {[1 .. n -> TreeValues] : n \in 0 .. MaxBulk}

TraversalTypes == {"inorder", "preorder", "postorder", "levelorder"}

BinaryTreeInit ==
  [root |-> InsertAll(undefined, InitialValues), highlighted |-> <<>>, currentNode |-> -1,
   traversalResult |-> <<>>, traversalType |-> "", message |-> NoStep,
   running |-> FALSE, stopRef |-> FALSE]

\* An invocation of animateTraversal(type): its result and its loop index.
NewTraversal(type, result) ==
  [type |-> type, result |-> result, i |-> 0, pc |-> "for", resume |-> "for",
   cancelled |-> FALSE]

animateTraversal(m) ==
  LET t == m.t
      stop == m.ui.stopRef
  IN CASE t.pc = "for" ->
            IF t.i < Len(t.result) /\ ~stop
            THEN [m EXCEPT !.ui.currentNode = At(t.result, t.i),
                           !.t.pc = "await", !.t.resume = "afterDelay"]
            ELSE [m EXCEPT !.t.pc = "end"]
       [] t.pc = "afterDelay" ->
            [m EXCEPT !.ui.highlighted = Append(@, At(t.result, t.i)),
                      !.ui.currentNode = -1, !.t.i = @ + 1, !.t.pc = "for"]
       [] t.pc = "end" ->
            [m EXCEPT !.ui.message = StepText(t.type, t.result),
                      !.ui.running = FALSE, !.t.pc = "done"]

RECURSIVE TraversalToYield(_)
TraversalToYield(m) ==
  IF m.t.pc \in {"await", "done"} THEN m ELSE TraversalToYield(animateTraversal(m))

TraversalResume(ui, t) ==
  TraversalToYield([ui |-> ui, t |-> [t EXCEPT !.pc = t.resume]])

\* animateTraversal(type) on a non-empty tree, up to its first delay
TraversalStart(ui, type) ==
  LET result == getTraversal(ui.root, type)
      ui1 == [ui EXCEPT !.running = TRUE, !.stopRef = FALSE, !.traversalResult = result,
                        !.traversalType = type, !.highlighted = <<>>, !.currentNode = -1]
  IN TraversalToYield([ui |-> ui1, t |-> NewTraversal(type, result)])

CancelTraversals(runs) == [k \in 1 .. Len(runs) |-> [runs[k] EXCEPT !.cancelled = TRUE]]

\* The value field and the Insert button are disabled while running.
TreeMayAct == treeOps < MaxOps

treeInsert ==
  /\ ~BinaryTree.running /\ TreeMayAct
  /\ treeOps' = treeOps + 1
  /\ \E input \in TreeInputs :
       IF input.nan THEN UNCHANGED BinaryTree
       ELSE BinaryTree' = [BinaryTree EXCEPT !.root = insertBST(@, input.val),
                                             !.message = StepText("Inserted", <<input.val>>)]
  /\ UNCHANGED <<treeRuns, notTree>>

bulkInsert ==
  /\ ~BinaryTree.running /\ TreeMayAct
  /\ treeOps' = treeOps + 1
  /\ \E values \in BulkInputs :
       IF Len(values) = 0 THEN UNCHANGED BinaryTree
       ELSE BinaryTree' = [BinaryTree EXCEPT !.root = InsertAll(@, values),
                                             !.message = StepText("Inserted values", values)]
  /\ UNCHANGED <<treeRuns, notTree>>

startTraversal ==
  /\ Len(treeRuns) < MaxRuns /\ TreeMayAct
  /\ treeOps' = treeOps + 1
  /\ \E type \in TraversalTypes :
       IF BinaryTree.root = undefined \/ BinaryTree.running THEN UNCHANGED <<BinaryTree, treeRuns>>
       ELSE LET m == TraversalStart(BinaryTree, type) IN
            /\ BinaryTree' = m.ui
            /\ treeRuns' = IF m.t.pc = "done" THEN treeRuns ELSE Append(treeRuns, m.t)
  /\ UNCHANGED notTree

treeTimer ==
  /\ \E k \in 1 .. Len(treeRuns) :
       LET m == TraversalResume(BinaryTree, treeRuns[k]) IN
         /\ BinaryTree' = m.ui
         /\ treeRuns' = IF m.t.pc = "done" THEN RemoveAt(treeRuns, k)
                        ELSE [treeRuns EXCEPT ![k] = m.t]
  /\ UNCHANGED <<treeOps, notTree>>

resetTree ==
  /\ TreeMayAct
  /\ treeOps' = treeOps + 1
  /\ BinaryTree' = [BinaryTree EXCEPT !.stopRef = TRUE,
                                      !.root = InsertAll(undefined, InitialValues),
                                      !.highlighted = <<>>, !.currentNode = -1,
                                      !.traversalResult = <<>>, !.message = NoStep,
                                      !.running = FALSE]
  /\ treeRuns' = CancelTraversals(treeRuns)
  /\ UNCHANGED notTree

clearTree ==
  /\ TreeMayAct
  /\ treeOps' = treeOps + 1
  /\ BinaryTree' = [BinaryTree EXCEPT !.stopRef = TRUE, !.root = undefined,
                                      !.highlighted = <<>>, !.currentNode = -1,
                                      !.traversalResult = <<>>,
                                      !.message = StepText("Tree cleared", <<>>),
                                      !.running = FALSE]
  /\ treeRuns' = CancelTraversals(treeRuns)
  /\ UNCHANGED notTree

TreeNext ==
  \/ treeInsert
  \/ bulkInsert
  \/ startTraversal
  \/ treeTimer
  \/ resetTree
  \/ clearTree

(***************************************************************************)
(* Claims about the binary tree page.                                      *)
(***************************************************************************)
RECURSIVE Nodes(_, _)
\* every node of the tree with the path from the root that leads to it
\* (0 = left, 1 = right)
Nodes(root, path) ==
  IF root = undefined THEN {}
  ELSE {[value |-> value(root), path |-> path]}
         \cup Nodes(left(root), Append(path, 0)) \cup Nodes(right(root), Append(path, 1))

IsPrefix(p, q) == Len(p) <= Len(q) /\ SubSeq(q, 1, Len(p)) = p

InLeftSubtree(n, d) == IsPrefix(Append(n.path, 0), d.path)

InRightSubtree(n, d) == IsPrefix(Append(n.path, 1), d.path)

\* d lies to the left of e on the same level
LeftOf(d, e) ==
  /\ Len(d.path) = Len(e.path)
  /\ \E x \in 1 .. Len(d.path) :
       /\ SubSeq(d.path, 1, x - 1) = SubSeq(e.path, 1, x - 1)
       /\ d.path[x] < e.path[x]

BSTOrdered(root) ==
  LET N == Nodes(root, <<>>) IN
    \A n \in N : \A d \in N :
      /\ InLeftSubtree(n, d) => d.value < n.value
      /\ InRightSubtree(n, d) => d.value > n.value

StrictlyIncreasing(a) == \A x \in 1 .. (Len(a) - 1) : a[x] < a[x + 1]

\* C8: whatever was inserted, reset or cleared, the tree is ordered as a BST,
\* inserting a value that is already stored leaves the tree as it is, and the
\* inorder traversal is sorted.
C8_BSTOrdering ==
  /\ BSTOrdered(BinaryTree.root)
  /\ StrictlyIncreasing(getTraversal(BinaryTree.root, "inorder"))
  /\ \A v \in TreeValues :
       LET once == insertBST(BinaryTree.root, v) IN
         /\ insertBST(once, v) = once
         /\ Count(getTraversal(once, "inorder"), v) = 1
         /\ BSTOrdered(once)

\* a tree grown by inserts beyond the initial seven values, one of them
\* inserted again
C8_Witness ==
  /\ countNodes(BinaryTree.root) > Len(InitialValues)
  /\ BinaryTree.message = StepText("Inserted values", <<45, 45>>)

\* the position of value v in the traversal a
Pos(a, v) == CHOOSE x \in 1 .. Len(a) : a[x] = v

TraversalLaws(root) ==
  LET N == Nodes(root, <<>>)
      pre == getTraversal(root, "preorder")
      post == getTraversal(root, "postorder")
      level == getTraversal(root, "levelorder")
      NodeOf(v) == CHOOSE n \in N : n.value = v
  IN /\ \A type \in TraversalTypes :
          LET a == getTraversal(root, type) IN
            /\ Len(a) = Cardinality(N)
            /\ \A n \in N : Count(a, n.value) = 1
            /\ Len(a) = countNodes(root)
     /\ \A n \in N : \A d \in N :
          (InLeftSubtree(n, d) \/ InRightSubtree(n, d)) =>
            /\ Pos(pre, n.value) < Pos(pre, d.value)
            /\ Pos(post, n.value) > Pos(post, d.value)
     /\ \A x \in 1 .. (Len(level) - 1) :
          LET d == NodeOf(level[x])
              e == NodeOf(level[x + 1])
          IN \/ Len(d.path) < Len(e.path)
             \/ LeftOf(d, e)

\* C9: for every tree built by inserts, each traversal lists every node value
\* exactly once; preorder lists a node before all of its subtrees' values,
\* postorder after all of them, and level order lists the nodes by
\* non-decreasing depth, left to right within a depth.  A started traversal
\* animates exactly that list.
C9_TraversalLaws ==
  /\ TraversalLaws(BinaryTree.root)
  /\ (BinaryTree.root # undefined /\ ~BinaryTree.running) =>
       \A type \in TraversalTypes :
         LET m == TraversalStart(BinaryTree, type) IN
           /\ m.t.result = getTraversal(BinaryTree.root, type)
           /\ m.ui.traversalResult = m.t.result
           /\ m.ui.currentNode = At(m.t.result, 0)

\* a level-order traversal is being animated on a tree that holds inserted
\* values on both sides of a node
C9_Witness ==
  /\ countNodes(BinaryTree.root) >= Len(InitialValues) + 2
  /\ \E k \in 1 .. Len(treeRuns) :
       /\ treeRuns[k].type = "levelorder" /\ ~treeRuns[k].cancelled
       /\ treeRuns[k].result = getTraversal(BinaryTree.root, "levelorder")
       /\ treeRuns[k].i >= 2

(***************************************************************************)
(* Graph page (src/unnamed/part_004, GraphVisualizer).  A node is its id   *)
(* (its x, y position is drawn at random and never read by an algorithm);  *)
(* an edge is a record [from, to, weight].                                 *)
(***************************************************************************)
DEFAULT_NODES == <<0, 1, 2, 3, 4, 5, 6>>

Edge(f, t, w) == [from |-> f, to |-> t, weight |-> w]

DEFAULT_EDGES ==
  <<Edge(0, 1, 4), Edge(0, 3, 2), Edge(1, 2, 3), Edge(1, 4, 1), Edge(2, 5, 6),
    Edge(3, 4, 5), Edge(3, 6, 7), Edge(4, 5, 2), Edge(4, 6, 3)>>

\* the value Infinity of a distance
Infinity == 1000000

GraphAlgoType == {"bfs", "dfs", "dijkstra"}

\* what the start, from and to fields may hold, seen through parseInt
StartInputs == {NaN} \cup {Num(v) : v \in {0, 4, 7}}

EndInputs == {NaN} \cup {Num(v) : v \in {0, 7}}

\* the to field may also name a node below a node added before it
ToInputs == EndInputs \cup {Num(8), Num(-1)}

WeightInputs == {NaN, Num(2), Num(-3)}

Has(s, v) == \E x \in 1 .. Len(s) : s[x] = v

Min2(a, b) == IF a < b THEN a ELSE b

Max2(a, b) == IF a > b THEN a ELSE b

\* `${Math.min(a, b)}-${Math.max(a, b)}`
EdgeKey(a, b) == <<Min2(a, b), Max2(a, b)>>

Reverse(s) == [x \in 1 .. Len(s) |-> s[Len(s) + 1 - x]]

GraphInit ==
  [nodes |-> DEFAULT_NODES, edges |-> DEFAULT_EDGES, algo |-> "bfs", visited |-> <<>>,
   currentNode |-> -1, visitedEdges |-> <<>>, running |-> FALSE, startNode |-> Num(0),
   message |-> NoStep, distances |-> <<>>, stopRef |-> FALSE]

RECURSIVE getNeighborsReversed(_, _)
\* getNeighbors listing the neighbours from the last declared edge to the first
getNeighborsReversed(edges, nodeId) ==
  IF edges = <<>> THEN <<>>
  ELSE LET e == edges[Len(edges)] IN
       (IF e.from = nodeId THEN <<[id |-> e.to, weight |-> e.weight]>> ELSE <<>>)
         \o (IF e.to = nodeId THEN <<[id |-> e.from, weight |-> e.weight]>> ELSE <<>>)
         \o getNeighborsReversed(SubSeq(edges, 1, Len(edges) - 1), nodeId)

RECURSIVE getNeighbors(_, _)
\* the neighbours of nodeId over the edges of the render, in declaration order
getNeighbors(edges, nodeId) ==
  IF edges = <<>> THEN <<>>
  ELSE LET e == Head(edges) IN
       (IF e.from = nodeId THEN <<[id |-> e.to, weight |-> e.weight]>> ELSE <<>>)
         \o (IF e.to = nodeId THEN <<[id |-> e.from, weight |-> e.weight]>> ELSE <<>>)
         \o getNeighbors(Tail(edges), nodeId)

\* An invocation of run(): the start it parsed, the nodes and edges of the
\* render it closed over, the locals of the algorithm, and the nodes it
\* dequeued so far; parent[x] is the node runBFS was at when it added vis[x].
NewGraphRun(algo, start, nodes, edges) ==
  [algo |-> algo, start |-> start, nodes |-> nodes, edges |-> edges,
   pc |-> "begin", resume |-> "begin", queue |-> <<>>, stack |-> <<>>, vis |-> <<>>,
   node |-> -1, dist |-> <<>>, i |-> 0, u |-> -1, order |-> <<>>, cancelled |-> FALSE,
   parent |-> <<>>]

GraphEff0 == [setVisited |-> 0, setVisitedEdges |-> 0, setDistances |-> 0, sawStop |-> FALSE]

\* setVisited([...vis])
setVisited(m) == [m EXCEPT !.ui.visited = m.t.vis, !.eff.setVisited = @ + 1]

\* setVisitedEdges((p) => [...p, key])
addVisitedEdge(m, a, b) ==
  [m EXCEPT !.ui.visitedEdges = Append(@, EdgeKey(a, b)), !.eff.setVisitedEdges = @ + 1]

\* setDistances({ ...dist })
setDistances(m) == [m EXCEPT !.ui.distances = m.t.dist, !.eff.setDistances = @ + 1]

RECURSIVE bfsNeighbors(_, _)
\* for (const nb of getNeighbors(node)) if (!vis.has(nb.id) && !stopRef.current) ...
bfsNeighbors(m, nbs) ==
  IF nbs = <<>> THEN m
  ELSE LET nb == Head(nbs) IN
       IF ~Has(m.t.vis, nb.id) /\ ~m.ui.stopRef
       THEN bfsNeighbors(
              addVisitedEdge(setVisited([m EXCEPT !.t.vis = Append(@, nb.id),
                                                  !.t.queue = Append(@, nb.id),
                                                  !.t.parent = Append(@, m.t.node)]),
                             m.t.node, nb.id),
              Tail(nbs))
       ELSE bfsNeighbors([m EXCEPT !.eff.sawStop = @ \/ (~Has(m.t.vis, nb.id) /\ m.ui.stopRef)],
                         Tail(nbs))

runBFS(m) ==
  LET t == m.t
      stop == m.ui.stopRef
  IN CASE t.pc = "begin" ->
            setVisited([m EXCEPT !.t.queue = <<t.start>>, !.t.vis = <<t.start>>,
                                 !.t.parent = <<t.start>>, !.t.pc = "while"])
       [] t.pc = "while" ->
            IF t.queue # <<>> /\ ~stop
            THEN LET node == Head(t.queue) IN
                 [m EXCEPT !.t.node = node, !.t.queue = Tail(t.queue),
                           !.t.order = Append(@, node),
                           !.ui.currentNode = node,
                           !.ui.message = StepText("Visiting node", <<node>>),
                           !.t.pc = "await", !.t.resume = "afterDelay"]
            ELSE [m EXCEPT !.t.pc = "end", !.eff.sawStop = @ \/ (t.queue # <<>> /\ stop)]
       [] t.pc = "afterDelay" ->
            [bfsNeighbors(m, getNeighbors(t.edges, t.node)) EXCEPT !.t.pc = "while"]
       [] t.pc = "end" ->
            [m EXCEPT !.ui.currentNode = -1,
                      !.ui.message = StepText("BFS Complete", t.vis),
                      !.t.pc = "return"]

RECURSIVE dfsNeighbors(_, _)
\* for (const nb of neighbors) if (!vis.has(nb.id)) { stack.push; setVisitedEdges }
dfsNeighbors(m, nbs) ==
  IF nbs = <<>> THEN m
  ELSE LET nb == Head(nbs) IN
       IF ~Has(m.t.vis, nb.id)
       THEN dfsNeighbors(addVisitedEdge([m EXCEPT !.t.stack = Append(@, nb.id)],
                                        m.t.node, nb.id),
                         Tail(nbs))
       ELSE dfsNeighbors(m, Tail(nbs))

\* runDFS without "if (vis.has(node)) continue"
runDFSRevisit(m) ==
  LET t == m.t
      stop == m.ui.stopRef
  IN CASE t.pc = "begin" ->
            [m EXCEPT !.t.stack = <<t.start>>, !.t.vis = <<>>, !.t.pc = "while"]
       [] t.pc = "while" ->
            IF t.stack # <<>> /\ ~stop
            THEN LET node == t.stack[Len(t.stack)]
                     rest == SubSeq(t.stack, 1, Len(t.stack) - 1)
                 IN [setVisited([m EXCEPT !.t.node = node, !.t.stack = rest,
                                          !.t.vis = IF Has(@, node) THEN @ ELSE Append(@, node),
                                          !.t.order = Append(@, node)])
                       EXCEPT !.ui.currentNode = node,
                              !.ui.message = StepText("Visiting node", <<node>>),
                              !.t.pc = "await", !.t.resume = "afterDelay"]
            ELSE [m EXCEPT !.t.pc = "end", !.eff.sawStop = @ \/ (t.stack # <<>> /\ stop)]
       [] t.pc = "afterDelay" ->
            [dfsNeighbors(m, Reverse(getNeighbors(t.edges, t.node))) EXCEPT !.t.pc = "while"]
       [] t.pc = "end" ->
            [m EXCEPT !.ui.currentNode = -1,
                      !.ui.message = StepText("DFS Complete", t.vis),
                      !.t.pc = "return"]

runDFS(m) ==
  LET t == m.t
      stop == m.ui.stopRef
  IN CASE t.pc = "begin" ->
            [m EXCEPT !.t.stack = <<t.start>>, !.t.vis = <<>>, !.t.pc = "while"]
       [] t.pc = "while" ->
            IF t.stack # <<>> /\ ~stop
            THEN LET node == t.stack[Len(t.stack)]
                     rest == SubSeq(t.stack, 1, Len(t.stack) - 1)
                 IN IF Has(t.vis, node)
                    THEN [m EXCEPT !.t.node = node, !.t.stack = rest]
                    ELSE [setVisited([m EXCEPT !.t.node = node, !.t.stack = rest,
                                               !.t.vis = Append(@, node),
                                               !.t.order = Append(@, node)])
                            EXCEPT !.ui.currentNode = node,
                                   !.ui.message = StepText("Visiting node", <<node>>),
                                   !.t.pc = "await", !.t.resume = "afterDelay"]
            ELSE [m EXCEPT !.t.pc = "end", !.eff.sawStop = @ \/ (t.stack # <<>> /\ stop)]
       [] t.pc = "afterDelay" ->
            [dfsNeighbors(m, Reverse(getNeighbors(t.edges, t.node))) EXCEPT !.t.pc = "while"]
       [] t.pc = "end" ->
            [m EXCEPT !.ui.currentNode = -1,
                      !.ui.message = StepText("DFS Complete", t.vis),
                      !.t.pc = "return"]

RECURSIVE pickMin(_, _, _, _, _)
\* nodes.forEach((n) => { if (!vis.has(n.id) && dist[n.id] < minDist) { minDist = ...; u = n.id } })
pickMin(nodes, vis, dist, minDist, u) ==
  IF nodes = <<>> THEN u
  ELSE LET n == Head(nodes) IN
       IF ~Has(vis, n) /\ dist[n] < minDist
       THEN pickMin(Tail(nodes), vis, dist, dist[n], n)
       ELSE pickMin(Tail(nodes), vis, dist, minDist, u)

RECURSIVE relaxNeighbors(_, _)
\* for (const nb of getNeighbors(u)) { newDist = dist[u] + nb.weight; if (newDist < dist[nb.id]) ... }
relaxNeighbors(m, nbs) ==
  IF nbs = <<>> THEN m
  ELSE LET nb == Head(nbs)
           newDist == m.t.dist[m.t.u] + nb.weight
       IN IF newDist < m.t.dist[nb.id]
          THEN relaxNeighbors(
                 addVisitedEdge(setDistances([m EXCEPT !.t.dist[nb.id] = newDist]),
                                m.t.u, nb.id),
                 Tail(nbs))
          ELSE relaxNeighbors(m, Tail(nbs))

runDijkstra(m) ==
  LET t == m.t
      stop == m.ui.stopRef
  IN CASE t.pc = "begin" ->
            LET ids == {t.nodes[x] : x \in 1 .. Len(t.nodes)}
                dist == [n \in ids |-> IF n = t.start THEN 0 ELSE Infinity]
            IN setDistances([m EXCEPT !.t.dist = dist, !.t.vis = <<>>, !.t.i = 0,
                                      !.t.pc = "for"])
       [] t.pc = "for" ->
            IF t.i < Len(t.nodes) /\ ~stop
            THEN LET u == pickMin(t.nodes, t.vis, t.dist, Infinity, -1) IN
                 IF u = -1 THEN [m EXCEPT !.t.u = u, !.t.pc = "end"]
                 ELSE [setVisited([m EXCEPT !.t.u = u, !.t.vis = Append(@, u),
                                            !.t.order = Append(@, u)])
                         EXCEPT !.ui.currentNode = u,
                                !.ui.message = StepText("Processing node", <<u, t.dist[u]>>),
                                !.t.pc = "await", !.t.resume = "afterDelay"]
            ELSE [m EXCEPT !.t.pc = "end",
                           !.eff.sawStop = @ \/ (t.i < Len(t.nodes) /\ stop)]
       [] t.pc = "afterDelay" ->
            [relaxNeighbors(m, getNeighbors(t.edges, t.u)) EXCEPT !.t.i = @ + 1, !.t.pc = "for"]
       [] t.pc = "end" ->
            [setDistances(m) EXCEPT !.ui.currentNode = -1,
                                    !.ui.message = StepText("Dijkstra Complete", <<>>),
                                    !.t.pc = "return"]

\* One control-flow step of run(): the algorithm, then setRunning(false).
GraphStep(m) ==
  IF m.t.pc = "return" THEN [m EXCEPT !.ui.running = FALSE, !.t.pc = "done"]
  ELSE IF m.t.algo = "bfs" THEN runBFS(m)
  ELSE IF m.t.algo = "dfs" THEN runDFS(m)
  ELSE runDijkstra(m)

RECURSIVE GraphToYield(_)
GraphToYield(m) ==
  IF m.t.pc \in {"await", "done"} THEN m ELSE GraphToYield(GraphStep(m))

\* Everything that runs when the delay timer of the invocation t fires.
GraphResume(ui, t) ==
  GraphToYield([ui |-> ui, t |-> [t EXCEPT !.pc = t.resume], eff |-> GraphEff0])

\* run() with a valid start node, up to its first delay
GraphStart(ui) ==
  LET ui1 == [ui EXCEPT !.stopRef = FALSE, !.running = TRUE, !.visited = <<>>,
                        !.visitedEdges = <<>>, !.currentNode = -1, !.distances = <<>>]
  IN GraphToYield([ui |-> ui1,
                   t |-> NewGraphRun(ui.algo, ui.startNode.val, ui.nodes, ui.edges),
                   eff |-> GraphEff0])

graphReset(ui) ==
  [ui EXCEPT !.stopRef = TRUE, !.running = FALSE, !.visited = <<>>, !.visitedEdges = <<>>,
             !.currentNode = -1, !.message = NoStep, !.distances = <<>>]

CancelGraphRuns(runs) == [k \in 1 .. Len(runs) |-> [runs[k] EXCEPT !.cancelled = TRUE]]

GraphMayAct == graphOps < MaxGraphOps

\* the start field is disabled while running
setStartNode ==
  /\ ~Graph.running /\ GraphMayAct
  /\ graphOps' = graphOps + 1
  /\ \E input \in StartInputs : Graph' = [Graph EXCEPT !.startNode = input]
  /\ UNCHANGED <<graphRuns, notGraph>>

\* the algorithm buttons: !running && setAlgo(a)
graphSetAlgo ==
  /\ GraphMayAct
  /\ graphOps' = graphOps + 1
  /\ \E a \in GraphAlgoType :
       IF Graph.running THEN UNCHANGED Graph ELSE Graph' = [Graph EXCEPT !.algo = a]
  /\ UNCHANGED <<graphRuns, notGraph>>

graphRun ==
  /\ Len(graphRuns) < MaxRuns /\ GraphMayAct
  /\ graphOps' = graphOps + 1
  /\ IF Graph.running THEN UNCHANGED <<Graph, graphRuns>>
     ELSE IF Graph.startNode.nan \/ ~Has(Graph.nodes, Graph.startNode.val)
     THEN /\ Graph' = [Graph EXCEPT !.message = StepText("Invalid start node", <<>>)]
          /\ UNCHANGED graphRuns
     ELSE LET m == GraphStart(Graph) IN
          /\ Graph' = m.ui
          /\ graphRuns' = IF m.t.pc = "done" THEN graphRuns ELSE Append(graphRuns, m.t)
  /\ UNCHANGED notGraph

graphTimer ==
  /\ \E k \in 1 .. Len(graphRuns) :
       LET m == GraphResume(Graph, graphRuns[k]) IN
         /\ Graph' = m.ui
         /\ graphRuns' = IF m.t.pc = "done" THEN RemoveAt(graphRuns, k)
                         ELSE [graphRuns EXCEPT ![k] = m.t]
  /\ UNCHANGED <<graphOps, notGraph>>

\* the Reset button
graphResetButton ==
  /\ GraphMayAct
  /\ graphOps' = graphOps + 1
  /\ Graph' = graphReset(Graph)
  /\ graphRuns' = CancelGraphRuns(graphRuns)
  /\ UNCHANGED notGraph

\* the Add button is disabled while running
addEdge ==
  /\ ~Graph.running /\ GraphMayAct
  /\ graphOps' = graphOps + 1
  /\ \E from \in EndInputs, to \in ToInputs, weight \in WeightInputs :
       LET f == from.val
           t == to.val
           w == IF weight.nan \/ weight.val = 0 THEN 1 ELSE weight.val
       IN IF from.nan \/ to.nan THEN UNCHANGED Graph
          ELSE Graph' = [Graph EXCEPT
                 !.nodes = @ \o (IF Has(Graph.nodes, f) THEN <<>> ELSE <<f>>)
                             \o (IF Has(Graph.nodes, t) THEN <<>> ELSE <<t>>),
                 !.edges = Append(@, Edge(f, t, w)),
                 !.message = StepText("Added edge", <<f, t, w>>)]
  /\ UNCHANGED <<graphRuns, notGraph>>

resetGraph ==
  /\ GraphMayAct
  /\ graphOps' = graphOps + 1
  /\ Graph' = [graphReset(Graph) EXCEPT !.nodes = DEFAULT_NODES, !.edges = DEFAULT_EDGES]
  /\ graphRuns' = CancelGraphRuns(graphRuns)
  /\ UNCHANGED notGraph

GraphNext ==
  \/ setStartNode
  \/ graphSetAlgo
  \/ graphRun
  \/ graphTimer
  \/ graphResetButton
  \/ addEdge
  \/ resetGraph

(***************************************************************************)
(* Claims about the graph page.                                            *)
(***************************************************************************)
GraphContinuations ==
  [k \in 1 .. Len(graphRuns) |-> GraphResume(Graph, graphRuns[k])]

\* the nodes one edge away from a node of S
Step(edges, S) ==
  S \cup {edges[x].to : x \in {y \in 1 .. Len(edges) : edges[y].from \in S}}
    \cup {edges[x].from : x \in {y \in 1 .. Len(edges) : edges[y].to \in S}}

RECURSIVE Closure(_, _)
Closure(edges, S) == IF Step(edges, S) = S THEN S ELSE Closure(edges, Step(edges, S))

\* the nodes reachable from start
Reachable(edges, start) == Closure(edges, {start})

NoDuplicates(s) == \A x \in 1 .. Len(s) : \A y \in 1 .. Len(s) : s[x] = s[y] => x = y

Range(s) == {s[x] : x \in 1 .. Len(s)}

RECURSIVE Fresh(_, _)
\* the ids of nbs that are not in seen, each once, in the order of nbs
Fresh(nbs, seen) ==
  IF nbs = <<>> THEN <<>>
  ELSE IF Has(seen, Head(nbs).id) THEN Fresh(Tail(nbs), seen)
  ELSE <<Head(nbs).id>> \o Fresh(Tail(nbs), Append(seen, Head(nbs).id))

\* the neighbours of node in the order in which the edges declare them
DeclaredNeighbors(edges, node) ==
  LET Ends(e) == (IF e.from = node THEN <<[id |-> e.to]>> ELSE <<>>)
                   \o (IF e.to = node THEN <<[id |-> e.from]>> ELSE <<>>)
      F[x \in 0 .. Len(edges)] == IF x = 0 THEN <<>> ELSE F[x - 1] \o Ends(edges[x])
  IN F[Len(edges)]

\* C10: a BFS run that is not cancelled dequeues one node per step, in the
\* order in which the nodes were discovered, a node's undiscovered neighbours
\* being discovered in edge-declaration order; when it ends it has dequeued
\* every node reachable from the start exactly once and no other node, and on
\* the default graph from start 0 the order is 0, 1, 3, 2, 4, 6, 5.
C10_BFSOrder ==
  \A k \in 1 .. Len(graphRuns) :
    LET r == graphRuns[k]
        m == GraphContinuations[k]
    IN (r.algo = "bfs" /\ ~r.cancelled) =>
         /\ NoDuplicates(r.vis)
         /\ r.order \o r.queue = r.vis
         /\ r.node = r.order[Len(r.order)]
         /\ Range(r.vis) \subseteq Reachable(r.edges, r.start)
         /\ m.t.vis = r.vis \o Fresh(DeclaredNeighbors(r.edges, r.node), r.vis)
         /\ Len(m.t.order) <= Len(r.order) + 1
         /\ m.t.pc = "await" =>
              /\ m.t.order = Append(r.order, m.t.node)
              /\ m.ui.currentNode = m.t.node
         /\ m.t.pc = "done" =>
              /\ m.t.order = r.order
              /\ m.t.order = m.t.vis
              /\ NoDuplicates(m.t.order)
              /\ Range(m.t.order) = Reachable(r.edges, r.start)
              /\ m.ui.message = StepText("BFS Complete", m.t.order)
              /\ (r.edges = DEFAULT_EDGES /\ r.start = 0)
                   => m.t.order = <<0, 1, 3, 2, 4, 6, 5>>

\* a BFS ends on a graph that has a node the run cannot reach
C10_Witness ==
  \E k \in 1 .. Len(graphRuns) :
    LET r == graphRuns[k]
        m == GraphContinuations[k]
    IN /\ r.algo = "bfs" /\ ~r.cancelled /\ m.t.pc = "done"
       /\ Len(m.t.order) >= 7
       /\ Range(r.nodes) # Range(m.t.order)


\* C17: a DFS run that is not cancelled shows one visit step per node it
\* visits: every resumption either stops at the next delay having shown
\* exactly one node, which it had not visited before, or ends with an empty
\* stack having shown none (the pops of nodes already visited in between
\* take no step and no delay); when it ends it has shown every node
\* reachable from the start exactly once and no other node.
C17_DFSVisitsOnce ==
  \A k \in 1 .. Len(graphRuns) :
    LET r == graphRuns[k]
        m == GraphContinuations[k]
    IN (r.algo = "dfs" /\ ~r.cancelled) =>
         /\ NoDuplicates(r.order)
         /\ r.order = r.vis
         /\ r.node = r.order[Len(r.order)]
         /\ Range(r.order) \subseteq Reachable(r.edges, r.start)
         /\ m.t.pc \in {"await", "done"}
         /\ m.t.pc = "await" =>
              /\ ~Has(r.order, m.t.node)
              /\ m.t.order = Append(r.order, m.t.node)
              /\ m.ui.currentNode = m.t.node
              /\ m.ui.visited = m.t.order
              /\ m.ui.message = StepText("Visiting node", <<m.t.node>>)
              /\ m.eff.setVisited = 1
         /\ m.t.pc = "done" =>
              /\ m.t.stack = <<>>
              /\ m.t.order = r.order
              /\ m.eff.setVisited = 0
              /\ Range(m.t.order) = Reachable(r.edges, r.start)
              /\ m.ui.message = StepText("DFS Complete", m.t.order)

\* a DFS ends by popping nodes it had already visited, on a graph that has a
\* node the run cannot reach
C17_Witness ==
  \E k \in 1 .. Len(graphRuns) :
    LET r == graphRuns[k]
        m == GraphContinuations[k]
    IN /\ r.algo = "dfs" /\ ~r.cancelled /\ m.t.pc = "done"
       /\ Len(r.stack) >= 2
       /\ Len(m.t.order) >= 7
       /\ Range(r.nodes) # Range(m.t.order)

\* one round of relaxing every edge in both directions
RelaxAll(edges, d) ==
  [n \in DOMAIN d |->
     LET via == {d[edges[x].from] + edges[x].weight :
                   x \in {y \in 1 .. Len(edges) : edges[y].to = n /\ d[edges[y].from] < Infinity}}
                \cup {d[edges[x].to] + edges[x].weight :
                   x \in {y \in 1 .. Len(edges) : edges[y].from = n /\ d[edges[y].to] < Infinity}}
                \cup {d[n]}
     IN CHOOSE v \in via : \A w \in via : v <= w]

RECURSIVE RelaxRounds(_, _, _)
RelaxRounds(edges, d, rounds) ==
  IF rounds = 0 THEN d ELSE RelaxRounds(edges, RelaxAll(edges, d), rounds - 1)

\* the minimum total weight of a path from start to each node, Infinity
\* where there is no path (weights not negative)
ShortestDistances(nodes, edges, start) ==
  RelaxRounds(edges, [n \in Range(nodes) |-> IF n = start THEN 0 ELSE Infinity],
              Cardinality(Range(nodes)))

NonNegative(edges) == \A x \in 1 .. Len(edges) : edges[x].weight >= 0

\* C18: when a Dijkstra run that is not cancelled ends on a graph whose edge
\* weights are all non-negative, the distances on the page are, for each
\* node, the minimum total weight of a path from the start node: 0 for the
\* start node, Infinity for a node that cannot be reached.
C18_DijkstraShortest ==
  \A k \in 1 .. Len(graphRuns) :
    LET r == graphRuns[k]
        m == GraphContinuations[k]
    IN (r.algo = "dijkstra" /\ ~r.cancelled /\ NonNegative(r.edges) /\ m.t.pc = "done") =>
         /\ m.ui.distances = ShortestDistances(r.nodes, r.edges, r.start)
         /\ m.ui.distances[r.start] = 0
         /\ \A n \in Range(r.nodes) :
              n \notin Reachable(r.edges, r.start) <=> m.ui.distances[n] = Infinity

\* C19: at every step of a Dijkstra run that is not cancelled, the node
\* finalized has the lowest id among the unvisited nodes that share the
\* minimum tentative distance.
C19_TieLowestId ==
  \A k \in 1 .. Len(graphRuns) :
    LET r == graphRuns[k]
        m == GraphContinuations[k]
    IN (r.algo = "dijkstra" /\ ~r.cancelled /\ m.t.pc = "await") =>
         \A n \in Range(r.nodes) \ Range(r.vis) :
           /\ m.t.dist[m.t.u] <= m.t.dist[n]
           /\ m.t.dist[n] = m.t.dist[m.t.u] => m.t.u <= n

\* the edge keys a BFS records for the nodes vis it discovered from parent
DiscoveryEdges(t) ==
  [x \in 1 .. (Len(t.vis) - 1) |-> EdgeKey(t.parent[x + 1], t.vis[x + 1])]

\* an edge of edges joins a and b
Joins(edges, a, b) ==
  \E x \in 1 .. Len(edges) :
    \/ edges[x].from = a /\ edges[x].to = b
    \/ edges[x].from = b /\ edges[x].to = a

\* C28: while a BFS run that Reset did not stop is under way, the visited-edge
\* list holds no key twice and holds exactly, in order, one key per node the
\* run discovered after the start, joining it to the dequeued node it was
\* first discovered from; when the run completes the list has one entry
\* less than the visited list.
C28_BFSEdges ==
  \A k \in 1 .. Len(graphRuns) :
    LET r == graphRuns[k]
        m == GraphContinuations[k]
    IN (r.algo = "bfs" /\ ~r.cancelled) =>
         /\ NoDuplicates(Graph.visitedEdges)
         /\ Graph.visitedEdges = DiscoveryEdges(r)
         /\ \A x \in 2 .. Len(r.vis) :
              /\ Has(r.order, r.parent[x])
              /\ Joins(r.edges, r.parent[x], r.vis[x])
         /\ NoDuplicates(m.ui.visitedEdges)
         /\ m.ui.visitedEdges = DiscoveryEdges(m.t)
         /\ m.t.pc = "done" => Len(m.ui.visitedEdges) = Len(m.ui.visited) - 1

\* C36: no two entries of the node list have the same id, and both endpoints
\* of every edge are ids of nodes in the list.
C36_NodesAndEdges ==
  /\ NoDuplicates(Graph.nodes)
  /\ \A x \in 1 .. Len(Graph.edges) :
       Has(Graph.nodes, Graph.edges[x].from) /\ Has(Graph.nodes, Graph.edges[x].to)

(***************************************************************************)
(* Hash table page (src/src/pages/HashTableVisualizer.tsx).  The handlers  *)
(* are synchronous; the only deferred code is the setTimeout callback that *)
(* clears the highlight.                                                   *)
(***************************************************************************)
TABLE_SIZE == 10

\* key % TABLE_SIZE: the remainder of JavaScript takes the sign of the key
hashFn(key) == IF key >= 0 THEN key % TABLE_SIZE ELSE 0 - ((0 - key) % TABLE_SIZE)

\* what may be typed into the key field: parseInt gives a number or NaN
KeyInputs == {NaN} \cup {Num(v) : v \in {15, 25, 35, -5}}

Buckets == 0 .. (TABLE_SIZE - 1)

EmptyTable == [i \in 1 .. TABLE_SIZE |-> <<>>]

Includes(b, val) == \E x \in 1 .. Len(b) : b[x] = val

\* b.filter((v) => v !== val)
Without(b, val) == SelectSeq(b, LAMBDA v : v # val)

\* insert with the key put at the head of its bucket
pushKeyFront(table, val) ==
  LET idx == hashFn(val) IN
    IF Includes(At(table, idx), val) THEN table
    ELSE Put(table, idx, <<val>> \o At(table, idx))

\* if (!newTable[idx].includes(val)) newTable[idx].push(val)
pushKey(table, val) ==
  LET idx == hashFn(val) IN
    IF Includes(At(table, idx), val) THEN table
    ELSE Put(table, idx, Append(At(table, idx), val))

RECURSIVE PushAll(_, _)
\* values.forEach((v) => t[hashFn(v)].push(v))
PushAll(table, values) ==
  IF values = <<>> THEN table
  ELSE PushAll(Put(table, hashFn(Head(values)),
                   Append(At(table, hashFn(Head(values))), Head(values))),
               Tail(values))

NoHighlight == [bucket |-> -1, val |-> NaN]

\* inserted is not a cell of the page: it lists the stored keys in the order
\* of the insert() calls that stored them.
HashTableInit ==
  [table |-> PushAll(EmptyTable, <<15, 25, 35, 7, 42>>), input |-> NaN,
   highlighted |-> NoHighlight, message |-> NoStep, history |-> <<>>,
   inserted |-> <<15, 25, 35, 7, 42>>]

\* setHistory((p) => [msg, ...p].slice(0, 10))
hashAddHistory(ui, msg) ==
  [ui EXCEPT !.history = SubSeq(<<msg>> \o @, 1, IF Len(@) + 1 < HistoryCap THEN Len(@) + 1
                                                 ELSE HistoryCap)]

RECURSIVE SumLen(_)
SumLen(table) == IF table = <<>> THEN 0 ELSE Len(Head(table)) + SumLen(Tail(table))

\* table.reduce((acc, b) => acc + b.length, 0)
totalElements == SumLen(HashTable.table)

\* (totalElements / TABLE_SIZE).toFixed(2), in hundredths
LoadFactor == (totalElements * 100) \div TABLE_SIZE

\* Math.max(0, ...table.map((b) => b.length))
MaxChain ==
  CHOOSE n \in 0 .. totalElements :
    /\ \A i \in Buckets : Len(At(HashTable.table, i)) <= n
    /\ n = 0 \/ \E i \in Buckets : Len(At(HashTable.table, i)) = n

HashMayAct == hashOps < MaxHashOps

\* the key field's onChange
hashSetInput ==
  /\ \E input \in KeyInputs : HashTable' = [HashTable EXCEPT !.input = input]
  /\ UNCHANGED <<hashTimers, hashOps, notHash>>

\* what search() reports for val: table[idx].includes(val) throws a TypeError
\* when idx is no bucket, and then no message is set
searchMessage(table, val) ==
  LET idx == hashFn(val) IN
    IF idx \notin Buckets THEN StepText("TypeError", <<>>)
    ELSE StepText(IF Includes(At(table, idx), val) THEN "Found" ELSE "not found", <<val, idx>>)

\* A handler that reads table[idx] for an idx that is no bucket throws a
\* TypeError before its first setState call: nothing changes.
hashInsert ==
  /\ HashMayAct
  /\ hashOps' = hashOps + 1
  /\ LET val == HashTable.input.val
         idx == hashFn(val)
     IN IF HashTable.input.nan \/ idx \notin Buckets
        THEN UNCHANGED <<HashTable, hashTimers>>
        ELSE LET collision == Len(At(HashTable.table, idx)) > 0
                 stored == ~Includes(At(HashTable.table, idx), val)
                 ui == [HashTable EXCEPT
                          !.table = pushKey(HashTable.table, val),
                          !.highlighted = [bucket |-> idx, val |-> Num(val)],
                          !.input = NaN,
                          !.message = StepText("hash", <<val, idx, collision>>),
                          !.inserted = IF stored THEN Append(@, val) ELSE @]
             IN /\ HashTable' = hashAddHistory(ui, StepText("INSERT", <<val, idx, collision>>))
                /\ hashTimers' = hashTimers + 1
  /\ UNCHANGED notHash

hashSearch ==
  /\ HashMayAct
  /\ hashOps' = hashOps + 1
  /\ LET val == HashTable.input.val
         idx == hashFn(val)
     IN IF HashTable.input.nan \/ idx \notin Buckets
        THEN UNCHANGED <<HashTable, hashTimers>>
        ELSE LET found == Includes(At(HashTable.table, idx), val)
                 ui == [HashTable EXCEPT
                          !.highlighted = [bucket |-> idx,
                                           val |-> IF found THEN Num(val) ELSE NaN],
                          !.message = searchMessage(HashTable.table, val)]
             IN /\ HashTable' = hashAddHistory(ui, StepText("SEARCH", <<val, found, idx>>))
                /\ hashTimers' = hashTimers + 1
  /\ UNCHANGED notHash

hashRemove ==
  /\ HashMayAct
  /\ hashOps' = hashOps + 1
  /\ LET val == HashTable.input.val
         idx == hashFn(val)
     IN IF HashTable.input.nan \/ idx \notin Buckets
        THEN UNCHANGED HashTable
        ELSE LET exists == Includes(At(HashTable.table, idx), val)
                 ui == [HashTable EXCEPT
                          !.table = Put(@, idx, Without(At(@, idx), val)),
                          !.input = NaN,
                          !.message = IF exists THEN StepText("Removed", <<val, idx>>)
                                      ELSE StepText("not found", <<val>>),
                          !.inserted = Without(@, val)]
             IN HashTable' = IF exists
                             THEN hashAddHistory(ui, StepText("DELETE", <<val, idx>>))
                             ELSE ui
  /\ UNCHANGED <<hashTimers, notHash>>

hashClear ==
  /\ HashMayAct
  /\ hashOps' = hashOps + 1
  /\ HashTable' = [HashTable EXCEPT !.table = EmptyTable, !.highlighted = NoHighlight,
                                    !.message = StepText("Hash table cleared", <<>>),
                                    !.history = <<>>, !.inserted = <<>>]
  /\ UNCHANGED <<hashTimers, notHash>>

\* setTimeout(() => setHighlighted(null), 2000)
hashTimer ==
  /\ hashTimers > 0
  /\ hashTimers' = hashTimers - 1
  /\ HashTable' = [HashTable EXCEPT !.highlighted = NoHighlight]
  /\ UNCHANGED <<hashOps, notHash>>

HashNext ==
  \/ hashSetInput
  \/ hashInsert
  \/ hashSearch
  \/ hashRemove
  \/ hashClear
  \/ hashTimer

(***************************************************************************)
(* Claims about the hash table page.                                       *)
(***************************************************************************)
\* the keys of s that hash to bucket i, in the order of s
KeysOfBucket(s, i) == SelectSeq(s, LAMBDA k : hashFn(k) = i)

\* C13: every bucket lists its keys in the order of the insert() calls that
\* stored them; when the stored keys are 15, 25, 35, inserted in that order
\* into an empty table, bucket 5 is [15,25,35], every other bucket is empty,
\* the load factor is 0.30 and the longest chain is 3.
C13_BucketInsertionOrder ==
  /\ \A i \in Buckets : At(HashTable.table, i) = KeysOfBucket(HashTable.inserted, i)
  /\ LoadFactor = Len(HashTable.inserted) * TABLE_SIZE
  /\ HashTable.inserted = <<15, 25, 35>> =>
       /\ At(HashTable.table, 5) = <<15, 25, 35>>
       /\ \A i \in Buckets \ {5} : At(HashTable.table, i) = <<>>
       /\ LoadFactor = 30
       /\ MaxChain = 3

\* 15, 25 and 35 were inserted in that order into the cleared table
C13_Witness ==
  /\ HashTable.inserted = <<15, 25, 35>>
  /\ Len(HashTable.history) = 3
  /\ \A x \in 1 .. 3 : HashTable.history[x].kind = "INSERT"

\* C37: for every number the key field holds, hashFn gives the index of a
\* bucket, 0 to 9.
C37_HashFnIsBucket ==
  ~HashTable.input.nan => hashFn(HashTable.input.val) \in Buckets

\* the keys of all buckets, bucket 0 first
RECURSIVE AllKeys(_)
AllKeys(table) == IF table = <<>> THEN <<>> ELSE Head(table) \o AllKeys(Tail(table))

\* C38: every key in bucket i has key mod 10 = i and no key is stored
\* twice; an insert of a key already stored leaves the table as it was; and
\* once remove was invoked with a key, a search for that key reports not found.
C38_TableWellFormed ==
  /\ [](/\ \A i \in Buckets : \A x \in 1 .. Len(At(HashTable.table, i)) :
             At(HashTable.table, i)[x] % TABLE_SIZE = i
        /\ NoDuplicates(AllKeys(HashTable.table)))
  /\ [][(/\ hashInsert /\ ~HashTable.input.nan
         /\ Has(AllKeys(HashTable.table), HashTable.input.val))
          => HashTable'.table = HashTable.table]_vars
  /\ [][(hashRemove /\ ~HashTable.input.nan)
          => searchMessage(HashTable'.table, HashTable.input.val).kind = "not found"]_vars

(***************************************************************************)
(* Recursion / dynamic programming page (src/unnamed/part_001).  run()     *)
(* calls reset() and defers the start of the run function by a 100 ms      *)
(* timer; the timer callback and the run function it calls read problem,   *)
(* input, input2 and input3 of the render in which Run was clicked.        *)
(***************************************************************************)
Problem == {"fibonacci", "factorial", "knapsack", "lcs"}

\* what may be typed into the n / capacity field
DPInputs == {NaN} \cup {Num(v) : v \in {-2, 2, 31}}

\* what may be typed into the two string fields
DPStrings == {<<>>, <<"a", "B">>, <<"B", "c", "A">>}

\* c.toUpperCase()
UpperChar(c) ==
  CASE c = "a" -> "A" [] c = "b" -> "B" [] c = "c" -> "C" [] c = "d" -> "D" [] OTHER -> c

toUpperCase(s) == [x \in 1 .. Len(s) |-> UpperChar(s[x])]

\* new Array(n).fill(0)
Zeros(n) == [x \in 1 .. n |-> 0]

\* Array.from({ length: rows }, () => new Array(cols).fill(0))
ZeroGrid(rows, cols) == [x \in 1 .. rows |-> Zeros(cols)]

Cell(grid, i, j) == At(At(grid, i), j)

PutCell(grid, i, j, v) == Put(grid, i, Put(At(grid, i), j, v))

\* The call stack panel is a log of at most cap lines, newest first; the
\* model keeps its length and its newest line.
\* [] (the empty log)
NoLines == [length |-> 0, newest |-> NoStep]

\* [entry, ...p].slice(0, cap)
PushCapped(p, entry, cap) ==
  [length |-> IF p.length + 1 < cap THEN p.length + 1 ELSE cap, newest |-> entry]

\* the items of runKnapsack
ItemWeights == <<1, 3, 4, 5>>

ItemValues == <<1, 4, 5, 7>>

NoCell == <<-1, -1>>

\* afterReset records that Reset or a problem button called reset() and Run was
\* not pressed since
DPInit ==
  [problem |-> "fibonacci", input |-> Num(8),
   input2 |-> <<"A", "B", "C", "B", "D", "A", "B">>, input3 |-> <<"B", "D", "C", "A", "B">>,
   running |-> FALSE, dpTable |-> <<>>, dpGrid |-> <<>>, currentCell |-> NoCell,
   callStack |-> NoLines, result |-> NoStep, message |-> NoStep, stopRef |-> FALSE,
   afterReset |-> FALSE]

\* What run() hands to its timer: the values of the render it was clicked in.
Captured(ui) ==
  [problem |-> ui.problem, input |-> ui.input, input2 |-> ui.input2, input3 |-> ui.input3]

\* An invocation of a run function, with its locals; cancelled is set by
\* every reset() that happens while it is suspended.
NewDPRun(c) ==
  [problem |-> c.problem, input |-> c.input, s1 |-> toUpperCase(c.input2),
   s2 |-> toUpperCase(c.input3), n |-> 0, capacity |-> 0, dp |-> <<>>, grid |-> <<>>,
   i |-> 0, j |-> 0, pc |-> "begin", resume |-> "begin", cancelled |-> FALSE]

\* What one segment of execution did.
DPEff0 == [started |-> FALSE, wrote |-> FALSE, result |-> FALSE, threw |-> FALSE]

dpResetCells(ui) ==
  [ui EXCEPT !.stopRef = TRUE, !.running = FALSE, !.dpTable = <<>>, !.dpGrid = <<>>,
             !.currentCell = NoCell, !.callStack = NoLines, !.result = NoStep,
             !.message = NoStep]

\* setRunning(true); stopRef.current = false
dpBegin(m) ==
  [m EXCEPT !.ui.running = TRUE, !.ui.stopRef = FALSE, !.eff.started = TRUE]

dpAwait(m, resume) == [m EXCEPT !.t.pc = "await", !.t.resume = resume]

\* setResult(...); setMessage(...); setCurrentCell([-1, -1]); setRunning(false)
dpFinish(m, text) ==
  [m EXCEPT !.ui.result = text, !.ui.message = StepText("done", <<text>>),
            !.ui.currentCell = NoCell, !.ui.running = FALSE,
            !.eff.result = TRUE, !.t.pc = "done"]

runFibonacci(m) ==
  LET t == m.t
      stop == m.ui.stopRef
      n == t.input.val
  IN CASE t.pc = "begin" ->
            IF t.input.nan \/ n < 0 \/ n > 30
            THEN [m EXCEPT !.ui.message = StepText("Enter a number 0-30", <<>>),
                           !.t.pc = "done"]
            ELSE LET dp == IF n >= 1 THEN Put(Zeros(n + 1), 1, 1) ELSE Zeros(n + 1)
                     m1 == [dpBegin(m) EXCEPT
                              !.t.n = n, !.t.dp = dp, !.ui.dpTable = dp,
                              !.ui.callStack = [length |-> 2,
                                                newest |-> StepText("fib", <<0, 0>>)],
                              !.eff.wrote = TRUE]
                 IN dpAwait(m1, "init")
       [] t.pc = "init" -> [m EXCEPT !.t.i = 2, !.t.pc = "for"]
       [] t.pc = "for" ->
            IF t.i <= t.n /\ ~stop
            THEN LET v == At(t.dp, t.i - 1) + At(t.dp, t.i - 2)
                     dp == Put(t.dp, t.i, v)
                     m1 == [m EXCEPT
                              !.t.dp = dp, !.ui.dpTable = dp,
                              !.ui.currentCell = <<t.i, -1>>,
                              !.ui.callStack = PushCapped(@,
                                  StepText("fib", <<t.i, At(t.dp, t.i - 1), At(t.dp, t.i - 2), v>>), 15),
                              !.ui.message = StepText("Computing fib", <<t.i, v>>),
                              !.eff.wrote = TRUE]
                 IN dpAwait(m1, "forNext")
            ELSE dpFinish(m, StepText("fib", <<t.n, At(t.dp, t.n)>>))
       [] t.pc = "forNext" -> [m EXCEPT !.t.i = @ + 1, !.t.pc = "for"]

runFactorial(m) ==
  LET t == m.t
      stop == m.ui.stopRef
      n == t.input.val
  IN CASE t.pc = "begin" ->
            IF t.input.nan \/ n < 0 \/ n > 20
            THEN [m EXCEPT !.ui.message = StepText("Enter a number 0-20", <<>>),
                           !.t.pc = "done"]
            ELSE LET dp == Put(Zeros(n + 1), 0, 1)
                     m1 == [dpBegin(m) EXCEPT
                              !.t.n = n, !.t.dp = dp, !.ui.dpTable = dp,
                              !.ui.callStack = [length |-> 1,
                                                newest |-> StepText("Base case", <<0, 1>>)],
                              !.eff.wrote = TRUE]
                 IN dpAwait(m1, "init")
       [] t.pc = "init" -> [m EXCEPT !.t.i = 1, !.t.pc = "for"]
       [] t.pc = "for" ->
            IF t.i <= t.n /\ ~stop
            THEN LET v == t.i * At(t.dp, t.i - 1)
                     dp == Put(t.dp, t.i, v)
                     m1 == [m EXCEPT
                              !.t.dp = dp, !.ui.dpTable = dp,
                              !.ui.currentCell = <<t.i, -1>>,
                              !.ui.callStack = PushCapped(@,
                                  StepText("factorial", <<t.i, At(t.dp, t.i - 1), v>>), 15),
                              !.ui.message = StepText("Computing factorial", <<t.i, v>>),
                              !.eff.wrote = TRUE]
                 IN dpAwait(m1, "forNext")
            ELSE dpFinish(m, StepText("factorial", <<t.n, At(t.dp, t.n)>>))
       [] t.pc = "forNext" -> [m EXCEPT !.t.i = @ + 1, !.t.pc = "for"]

\* runLCS with Math.max(grid[i - 1][j], grid[i][j - 1]) replaced by grid[i - 1][j]
runLCSUpOnly(m) ==
  LET t == m.t
      stop == m.ui.stopRef
      rows == Len(t.s1)
      cols == Len(t.s2)
  IN CASE t.pc = "begin" ->
            IF t.s1 = <<>> \/ t.s2 = <<>> THEN [m EXCEPT !.t.pc = "done"]
            ELSE LET grid == ZeroGrid(rows + 1, cols + 1) IN
                 [dpBegin(m) EXCEPT !.t.grid = grid, !.ui.dpGrid = grid, !.t.i = 1,
                                    !.eff.wrote = TRUE, !.t.pc = "outer"]
       [] t.pc = "outer" ->
            IF t.i <= rows /\ ~stop THEN [m EXCEPT !.t.j = 1, !.t.pc = "inner"]
            ELSE dpFinish(m, StepText("LCS length", <<Cell(t.grid, rows, cols)>>))
       [] t.pc = "inner" ->
            IF t.j <= cols /\ ~stop
            THEN LET match == t.s1[t.i] = t.s2[t.j]
                     up == Cell(t.grid, t.i - 1, t.j)
                     lf == Cell(t.grid, t.i, t.j - 1)
                     v == IF match THEN Cell(t.grid, t.i - 1, t.j - 1) + 1
                          ELSE up
                     grid == PutCell(t.grid, t.i, t.j, v)
                     entry == IF match THEN StepText("Match", <<t.i, t.j, v>>)
                              ELSE StepText("No match", <<t.i, t.j, up, lf, v>>)
                     m1 == [m EXCEPT
                              !.t.grid = grid, !.ui.dpGrid = grid,
                              !.ui.currentCell = <<t.i, t.j>>,
                              !.ui.callStack = PushCapped(@, entry, 15),
                              !.ui.message = StepText("Processing", <<t.i, t.j>>),
                              !.eff.wrote = TRUE]
                 IN dpAwait(m1, "innerNext")
            ELSE [m EXCEPT !.t.i = @ + 1, !.t.pc = "outer"]
       [] t.pc = "innerNext" -> [m EXCEPT !.t.j = @ + 1, !.t.pc = "inner"]

runLCS(m) ==
  LET t == m.t
      stop == m.ui.stopRef
      rows == Len(t.s1)
      cols == Len(t.s2)
  IN CASE t.pc = "begin" ->
            IF t.s1 = <<>> \/ t.s2 = <<>> THEN [m EXCEPT !.t.pc = "done"]
            ELSE LET grid == ZeroGrid(rows + 1, cols + 1) IN
                 [dpBegin(m) EXCEPT !.t.grid = grid, !.ui.dpGrid = grid, !.t.i = 1,
                                    !.eff.wrote = TRUE, !.t.pc = "outer"]
       [] t.pc = "outer" ->
            IF t.i <= rows /\ ~stop THEN [m EXCEPT !.t.j = 1, !.t.pc = "inner"]
            ELSE dpFinish(m, StepText("LCS length", <<Cell(t.grid, rows, cols)>>))
       [] t.pc = "inner" ->
            IF t.j <= cols /\ ~stop
            THEN LET match == t.s1[t.i] = t.s2[t.j]
                     up == Cell(t.grid, t.i - 1, t.j)
                     lf == Cell(t.grid, t.i, t.j - 1)
                     v == IF match THEN Cell(t.grid, t.i - 1, t.j - 1) + 1
                          ELSE IF up >= lf THEN up ELSE lf
                     grid == PutCell(t.grid, t.i, t.j, v)
                     entry == IF match THEN StepText("Match", <<t.i, t.j, v>>)
                              ELSE StepText("No match", <<t.i, t.j, up, lf, v>>)
                     m1 == [m EXCEPT
                              !.t.grid = grid, !.ui.dpGrid = grid,
                              !.ui.currentCell = <<t.i, t.j>>,
                              !.ui.callStack = PushCapped(@, entry, 15),
                              !.ui.message = StepText("Processing", <<t.i, t.j>>),
                              !.eff.wrote = TRUE]
                 IN dpAwait(m1, "innerNext")
            ELSE [m EXCEPT !.t.i = @ + 1, !.t.pc = "outer"]
       [] t.pc = "innerNext" -> [m EXCEPT !.t.j = @ + 1, !.t.pc = "inner"]

runKnapsack(m) ==
  LET t == m.t
      stop == m.ui.stopRef
      n == Len(ItemWeights)
  IN CASE t.pc = "begin" ->
            \* parseInt(input) || 7; new Array(capacity + 1) throws a RangeError
            \* for a negative length, after setRunning(true)
            LET capacity == IF t.input.nan \/ t.input.val = 0 THEN 7 ELSE t.input.val
                m1 == [dpBegin(m) EXCEPT !.t.capacity = capacity]
            IN IF capacity + 1 < 0 THEN [m1 EXCEPT !.eff.threw = TRUE, !.t.pc = "done"]
               ELSE LET grid == ZeroGrid(n + 1, capacity + 1) IN
                    [m1 EXCEPT !.t.grid = grid, !.ui.dpGrid = grid, !.t.i = 1,
                               !.eff.wrote = TRUE, !.t.pc = "outer"]
       [] t.pc = "outer" ->
            IF t.i <= n /\ ~stop THEN [m EXCEPT !.t.j = 0, !.t.pc = "inner"]
            ELSE \* grid[n][capacity] is undefined when capacity is -1
                 dpFinish(m, StepText("Max value",
                                      <<IF t.capacity >= 0 THEN Num(Cell(t.grid, n, t.capacity))
                                        ELSE NaN>>))
       [] t.pc = "inner" ->
            IF t.j <= t.capacity /\ ~stop
            THEN LET w == t.j
                     wt == ItemWeights[t.i]
                     val == ItemValues[t.i]
                     skip == Cell(t.grid, t.i - 1, w)
                     take == Cell(t.grid, t.i - 1, w - wt) + val
                     v == IF wt <= w THEN (IF skip >= take THEN skip ELSE take) ELSE skip
                     grid == PutCell(t.grid, t.i, w, v)
                     m1 == [m EXCEPT
                              !.t.grid = grid, !.ui.dpGrid = grid,
                              !.ui.currentCell = <<t.i, w>>,
                              !.ui.callStack =
                                 IF wt <= w
                                 THEN PushCapped(@, StepText("Item",
                                        <<t.i, wt, val, w, skip, take - val, v>>), 12)
                                 ELSE @,
                              !.eff.wrote = TRUE]
                 IN dpAwait(m1, "innerNext")
            ELSE [m EXCEPT !.t.i = @ + 1, !.t.pc = "outer"]
       [] t.pc = "innerNext" -> [m EXCEPT !.t.j = @ + 1, !.t.pc = "inner"]

DPStep(m) ==
  CASE m.t.problem = "fibonacci" -> runFibonacci(m)
    [] m.t.problem = "factorial" -> runFactorial(m)
    [] m.t.problem = "lcs" -> runLCS(m)
    [] m.t.problem = "knapsack" -> runKnapsack(m)

RECURSIVE DPToYield(_)
DPToYield(m) ==
  IF m.t.pc \in {"await", "done"} THEN m ELSE DPToYield(DPStep(m))

\* Everything that runs when the delay timer of the invocation t fires.
DPResume(ui, t) ==
  DPToYield([ui |-> ui, t |-> [t EXCEPT !.pc = t.resume], eff |-> DPEff0])

\* The 100 ms timer callback of run(): the run function up to its first delay.
DPStart(ui, c) == DPToYield([ui |-> ui, t |-> NewDPRun(c), eff |-> DPEff0])

CancelDPRuns(runs) == [k \in 1 .. Len(runs) |-> [runs[k] EXCEPT !.cancelled = TRUE]]

DPMayAct == dpOps < MaxDPOps

\* the n / capacity field, disabled while running
dpSetInput ==
  /\ DPMayAct /\ ~DP.running /\ DP.problem # "lcs"
  /\ dpOps' = dpOps + 1
  /\ \E input \in DPInputs : DP' = [DP EXCEPT !.input = input]
  /\ UNCHANGED <<dpRuns, dpTimers, notDP>>

\* the two string fields, disabled while running
dpSetStrings ==
  /\ DPMayAct /\ ~DP.running /\ DP.problem = "lcs"
  /\ dpOps' = dpOps + 1
  /\ \E s \in DPStrings : \E first \in BOOLEAN :
       DP' = IF first THEN [DP EXCEPT !.input2 = s] ELSE [DP EXCEPT !.input3 = s]
  /\ UNCHANGED <<dpRuns, dpTimers, notDP>>

\* the problem buttons: if (!running) { setProblem(p); reset(); }
setProblem ==
  /\ DPMayAct
  /\ dpOps' = dpOps + 1
  /\ \E p \in Problem :
       IF DP.running THEN UNCHANGED <<DP, dpRuns>>
       ELSE /\ DP' = [dpResetCells(DP) EXCEPT !.problem = p, !.afterReset = TRUE]
            /\ dpRuns' = CancelDPRuns(dpRuns)
  /\ UNCHANGED <<dpTimers, notDP>>

\* the Run button, disabled while running: reset(); setTimeout(..., 100)
dpRun ==
  /\ DPMayAct /\ ~DP.running
  /\ Len(dpRuns) + Len(dpTimers) < MaxRuns
  /\ dpOps' = dpOps + 1
  /\ DP' = [dpResetCells(DP) EXCEPT !.afterReset = FALSE]
  /\ dpRuns' = CancelDPRuns(dpRuns)
  /\ dpTimers' = Append(dpTimers, Captured(DP))
  /\ UNCHANGED notDP

\* the 100 ms timer of run() fires
dpDispatch ==
  /\ \E k \in 1 .. Len(dpTimers) :
       LET m == DPStart(DP, dpTimers[k]) IN
         /\ DP' = m.ui
         /\ dpRuns' = IF m.t.pc = "done" THEN dpRuns ELSE Append(dpRuns, m.t)
         /\ dpTimers' = RemoveAt(dpTimers, k)
  /\ UNCHANGED <<dpOps, notDP>>

\* the delay timer of a suspended run fires
dpTimer ==
  /\ \E k \in 1 .. Len(dpRuns) :
       LET m == DPResume(DP, dpRuns[k]) IN
         /\ DP' = m.ui
         /\ dpRuns' = IF m.t.pc = "done" THEN RemoveAt(dpRuns, k)
                      ELSE [dpRuns EXCEPT ![k] = m.t]
  /\ UNCHANGED <<dpTimers, dpOps, notDP>>

\* the Reset button
dpReset ==
  /\ DPMayAct
  /\ dpOps' = dpOps + 1
  /\ DP' = [dpResetCells(DP) EXCEPT !.afterReset = TRUE]
  /\ dpRuns' = CancelDPRuns(dpRuns)
  /\ UNCHANGED <<dpTimers, notDP>>

DPNext ==
  \/ dpSetInput
  \/ dpSetStrings
  \/ setProblem
  \/ dpRun
  \/ dpDispatch
  \/ dpTimer
  \/ dpReset

(***************************************************************************)
(* Claims about the recursion / dynamic programming page.                  *)
(***************************************************************************)
\* the n field holds no number the selected problem accepts
InvalidN(ui) ==
  \/ ui.problem = "fibonacci" /\ (ui.input.nan \/ ui.input.val < 0 \/ ui.input.val > 30)
  \/ ui.problem = "factorial" /\ (ui.input.nan \/ ui.input.val < 0 \/ ui.input.val > 20)

\* C15: a run requested with invalid input (a non-numeric search target, a
\* graph start value that is no node id, a Fibonacci n outside 0..30, a
\* factorial n outside 0..20) starts no run, leaves the running flag as it is
\* and leaves the displayed data and results unchanged.
C15_InvalidInputNoMutation ==
  [][/\ (searchRun /\ Searching.target.nan) =>
          /\ searchRuns' = searchRuns
          /\ Searching'.running = Searching.running
          /\ Searching'.array = Searching.array
          /\ Searching'.visited = Searching.visited
          /\ Searching'.found = Searching.found
          /\ Searching'.current = Searching.current
     /\ (graphRun /\ (Graph.startNode.nan \/ ~Has(Graph.nodes, Graph.startNode.val))) =>
          /\ graphRuns' = graphRuns
          /\ Graph'.running = Graph.running
          /\ Graph'.visited = Graph.visited
          /\ Graph'.visitedEdges = Graph.visitedEdges
          /\ Graph'.distances = Graph.distances
     /\ (dpRun /\ InvalidN(DP)) =>
          /\ dpRuns' = dpRuns
          /\ DP'.running = DP.running
          /\ DP'.dpTable = DP.dpTable
          /\ DP'.dpGrid = DP.dpGrid
          /\ DP'.result = DP.result
     /\ (dpDispatch /\ \E k \in 1 .. Len(dpTimers) : InvalidN(dpTimers[k])) =>
          \/ Len(dpRuns') > Len(dpRuns)
          \/ /\ DP'.running = DP.running
             /\ DP'.dpTable = DP.dpTable
             /\ DP'.dpGrid = DP.dpGrid
             /\ DP'.result = DP.result]_vars


RECURSIVE Fib(_)
Fib(n) == IF n < 2 THEN n ELSE Fib(n - 1) + Fib(n - 2)

RECURSIVE Factorial(_)
Factorial(n) == IF n = 0 THEN 1 ELSE n * Factorial(n - 1)

\* the characters of s at the positions in S, in order
Pick(s, S) ==
  LET F[k \in 0 .. Len(s)] ==
        IF k = 0 THEN <<>> ELSE IF k \in S THEN Append(F[k - 1], s[k]) ELSE F[k - 1]
  IN F[Len(s)]

Subsequences(s) == {Pick(s, S) : S \in SUBSET (1 .. Len(s))}

Largest(S) == CHOOSE v \in S : \A w \in S : w <= v

\* the length of a longest common subsequence
LCSLength(a, b) == Largest({Len(c) : c \in Subsequences(a) \cap Subsequences(b)})

SumOver(S, f) ==
  LET F[k \in 0 .. Len(f)] == IF k = 0 THEN 0 ELSE F[k - 1] + (IF k \in S THEN f[k] ELSE 0)
  IN F[Len(f)]

\* the best total value of a set of items that weighs at most capacity
BestValue(capacity) ==
  Largest({SumOver(S, ItemValues) :
             S \in {T \in SUBSET (1 .. Len(ItemWeights)) : SumOver(T, ItemWeights) <= capacity}})

\* the cells a suspended invocation has written, base cells included
WrittenCells(t) ==
  IF t.problem \in {"fibonacci", "factorial"}
  THEN {<<x, -1>> : x \in IF t.resume = "init"
                           THEN (IF t.problem = "fibonacci" THEN {0, 1} ELSE {0})
                           ELSE 0 .. t.i}
  ELSE {c \in (0 .. Len(t.grid) - 1) \X (0 .. Len(t.grid[1]) - 1) :
          \/ c[1] = 0
          \/ t.problem = "lcs" /\ c[2] = 0
          \/ c[1] < t.i
          \/ c[1] = t.i /\ c[2] <= t.j}

\* the cells the recurrence of a cell reads
ReadCells(t, c) ==
  CASE t.problem = "fibonacci" -> {<<c[1] - 1, -1>>, <<c[1] - 2, -1>>}
    [] t.problem = "factorial" -> {<<c[1] - 1, -1>>}
    [] t.problem = "lcs" ->
         IF t.s1[c[1]] = t.s2[c[2]] THEN {<<c[1] - 1, c[2] - 1>>}
         ELSE {<<c[1] - 1, c[2]>>, <<c[1], c[2] - 1>>}
    [] t.problem = "knapsack" ->
         {<<c[1] - 1, c[2]>>}
           \cup (IF ItemWeights[c[1]] <= c[2] THEN {<<c[1] - 1, c[2] - ItemWeights[c[1]]>>}
                 ELSE {})

DPContinuations ==
  [k \in 1 .. Len(dpRuns) |-> DPResume(DP, dpRuns[k])]

\* C21: for every run that Reset did not stop: a step writes one cell, the
\* one shown as the current cell, and the cells its recurrence reads were
\* written before; when the run ends, the Fibonacci table holds fib(x) and
\* the factorial table x! at every index 0..n, the LCS grid cell [m][n] is
\* the length of a longest common subsequence of the two upper-cased
\* strings, and the knapsack grid cell [4][capacity] is the best total value
\* of a set of the four items that weighs at most capacity.
C21_DPTables ==
  \A k \in 1 .. Len(dpRuns) :
    LET r == dpRuns[k]
        m == DPContinuations[k]
        t == m.t
    IN ~r.cancelled =>
         /\ t.pc = "await" =>
              /\ m.ui.currentCell \notin WrittenCells(r)
              /\ WrittenCells(t) = WrittenCells(r) \cup {m.ui.currentCell}
              /\ ReadCells(t, m.ui.currentCell) \subseteq WrittenCells(r)
              /\ IF t.problem \in {"fibonacci", "factorial"}
                 THEN m.ui.dpTable = t.dp
                      /\ \A x \in 0 .. t.n : x # t.i => At(t.dp, x) = At(r.dp, x)
                 ELSE m.ui.dpGrid = t.grid
                      /\ \A c \in WrittenCells(r) : Cell(t.grid, c[1], c[2]) = Cell(r.grid, c[1], c[2])
         /\ t.pc = "done" =>
              /\ t.dp = r.dp /\ t.grid = r.grid
              /\ t.problem = "fibonacci" => \A x \in 0 .. t.n : At(t.dp, x) = Fib(x)
              /\ t.problem = "factorial" => \A x \in 0 .. t.n : At(t.dp, x) = Factorial(x)
              /\ t.problem = "lcs" =>
                   /\ Cell(t.grid, Len(t.s1), Len(t.s2)) = LCSLength(t.s1, t.s2)
                   /\ \A x \in 1 .. Len(t.s1) : t.s1[x] = toUpperCase(t.s1)[x]
                   /\ \A x \in 1 .. Len(t.s2) : t.s2[x] = toUpperCase(t.s2)[x]
              /\ t.problem = "knapsack" =>
                   Cell(t.grid, Len(ItemWeights), t.capacity) = BestValue(t.capacity)

\* the LCS run on "ABCBDAB" and "BDCAB" is about to end with 4 in its last cell
C21_Witness ==
  \E k \in 1 .. Len(dpRuns) :
    /\ dpRuns[k].problem = "lcs" /\ ~dpRuns[k].cancelled
    /\ DPContinuations[k].t.pc = "done"
    /\ Len(dpRuns[k].s1) = 7 /\ Len(dpRuns[k].s2) = 5
    /\ Cell(dpRuns[k].grid, 7, 5) = 4
    /\ DPContinuations[k].ui.result = StepText("LCS length", <<4>>)

\* C25: whenever the running flag of the recursion / DP page is true it is
\* false again later, every pending timer firing in the end (for every n
\* and every knapsack capacity the Run button accepts).
C25_RunsEnd == DP.running ~> ~DP.running

\* C34: from a reset() by the Reset button or a problem button until Run
\* is pressed the running flag is false, and at no time are two run
\* functions that no reset() stopped suspended together.
C34_OneRunAfterReset ==
  /\ DP.afterReset => ~DP.running
  /\ Cardinality({k \in 1 .. Len(dpRuns) : ~dpRuns[k].cancelled}) <= 1

\* the result text a run function called with the arguments of t has to show
TrueResult(t) ==
  CASE t.problem = "fibonacci" -> StepText("fib", <<t.n, Fib(t.n)>>)
    [] t.problem = "factorial" -> StepText("factorial", <<t.n, Factorial(t.n)>>)
    [] t.problem = "lcs" -> StepText("LCS length", <<LCSLength(t.s1, t.s2)>>)
    [] OTHER -> StepText("Max value", <<Num(BestValue(t.capacity))>>)

\* C35: whenever a run function, stopped by a reset() or not, publishes a
\* result text, the value in it is the true value of the function for the
\* argument of the run.
C35_ResultIsTrueValue ==
  \A k \in 1 .. Len(dpRuns) :
    LET m == DPContinuations[k] IN
      m.eff.result => m.ui.result = TrueResult(m.t)

(***************************************************************************)
(* Stack page (src/src/pages/StackVisualizer.tsx), queue page (the         *)
(* QueueVisualizer component of src/src/pages/QueueVisualizer.tsx, lines   *)
(* 106-242) and linked list page                                           *)
(* (src/src/pages/LinkedListVisualizer.tsx).                               *)
(***************************************************************************)
\* what may be typed into a value field of these pages
ValueInputs == {NaN, Num(5)}

\* what may be typed into the index field of the linked list page
IndexInputs == {NaN, Num(0), Num(7)}

\* setHistory((p) => [msg, ...p].slice(0, 10))
WithHistory(ui, msg) ==
  [ui EXCEPT !.history = SubSeq(<<msg>> \o @, 1, IF Len(@) + 1 < HistoryCap THEN Len(@) + 1
                                                 ELSE HistoryCap)]

LinearMayAct == linearOps < MaxLinearOps

StackInit ==
  [stack |-> <<42, 17, 85>>, input |-> NaN, peeked |-> FALSE, message |-> NoStep,
   history |-> <<>>]

stackSetInput ==
  /\ LinearMayAct /\ linearOps' = linearOps + 1
  /\ \E input \in ValueInputs : Stack' = [Stack EXCEPT !.input = input]
  /\ UNCHANGED <<Queue, listVars, notLinear>>

push ==
  /\ LinearMayAct /\ linearOps' = linearOps + 1
  /\ IF Stack.input.nan THEN UNCHANGED Stack
     ELSE LET val == Stack.input.val IN
          Stack' = WithHistory([Stack EXCEPT !.stack = Append(@, val), !.input = NaN,
                                             !.peeked = FALSE,
                                             !.message = StepText("Pushed", <<val>>)],
                               StepText("PUSH", <<val>>))
  /\ UNCHANGED <<Queue, listVars, notLinear>>

\* pop recording the underflow in the history
popLoggingUnderflow ==
  /\ LinearMayAct /\ linearOps' = linearOps + 1
  /\ IF Len(Stack.stack) = 0
     THEN Stack' = WithHistory([Stack EXCEPT !.message = StepText("Stack Underflow", <<>>)],
                               StepText("POP", <<>>))
     ELSE LET val == Stack.stack[Len(Stack.stack)] IN
          Stack' = WithHistory([Stack EXCEPT !.stack = SubSeq(@, 1, Len(@) - 1),
                                             !.peeked = FALSE,
                                             !.message = StepText("Popped", <<val>>)],
                               StepText("POP", <<val>>))
  /\ UNCHANGED <<Queue, listVars, notLinear>>

pop ==
  /\ LinearMayAct /\ linearOps' = linearOps + 1
  /\ IF Len(Stack.stack) = 0
     THEN Stack' = [Stack EXCEPT !.message = StepText("Stack Underflow", <<>>)]
     ELSE LET val == Stack.stack[Len(Stack.stack)] IN
          Stack' = WithHistory([Stack EXCEPT !.stack = SubSeq(@, 1, Len(@) - 1),
                                             !.peeked = FALSE,
                                             !.message = StepText("Popped", <<val>>)],
                               StepText("POP", <<val>>))
  /\ UNCHANGED <<Queue, listVars, notLinear>>

peek ==
  /\ LinearMayAct /\ linearOps' = linearOps + 1
  /\ IF Len(Stack.stack) = 0
     THEN Stack' = [Stack EXCEPT !.message = StepText("Stack is empty", <<>>)]
     ELSE LET val == Stack.stack[Len(Stack.stack)] IN
          Stack' = WithHistory([Stack EXCEPT !.peeked = TRUE,
                                             !.message = StepText("Top element", <<val>>)],
                               StepText("PEEK", <<val>>))
  /\ UNCHANGED <<Queue, listVars, notLinear>>

stackClear ==
  /\ LinearMayAct /\ linearOps' = linearOps + 1
  /\ Stack' = [Stack EXCEPT !.stack = <<>>, !.peeked = FALSE,
                            !.message = StepText("Stack cleared", <<>>), !.history = <<>>]
  /\ UNCHANGED <<Queue, listVars, notLinear>>

QueueInit ==
  [queue |-> <<12, 45, 78>>, input |-> NaN, message |-> NoStep, history |-> <<>>]

queueSetInput ==
  /\ LinearMayAct /\ linearOps' = linearOps + 1
  /\ \E input \in ValueInputs : Queue' = [Queue EXCEPT !.input = input]
  /\ UNCHANGED <<Stack, listVars, notLinear>>

enqueue ==
  /\ LinearMayAct /\ linearOps' = linearOps + 1
  /\ IF Queue.input.nan THEN UNCHANGED Queue
     ELSE LET val == Queue.input.val IN
          Queue' = WithHistory([Queue EXCEPT !.queue = Append(@, val), !.input = NaN,
                                             !.message = StepText("Enqueued", <<val>>)],
                               StepText("ENQUEUE", <<val>>))
  /\ UNCHANGED <<Stack, listVars, notLinear>>

dequeue ==
  /\ LinearMayAct /\ linearOps' = linearOps + 1
  /\ IF Len(Queue.queue) = 0
     THEN Queue' = [Queue EXCEPT !.message = StepText("Queue Underflow", <<>>)]
     ELSE LET val == Queue.queue[1] IN
          Queue' = WithHistory([Queue EXCEPT !.queue = Tail(@),
                                             !.message = StepText("Dequeued", <<val>>)],
                               StepText("DEQUEUE", <<val>>))
  /\ UNCHANGED <<Stack, listVars, notLinear>>

queueClear ==
  /\ LinearMayAct /\ linearOps' = linearOps + 1
  /\ Queue' = [Queue EXCEPT !.queue = <<>>, !.message = StepText("Queue cleared", <<>>),
                            !.history = <<>>]
  /\ UNCHANGED <<Stack, listVars, notLinear>>

\* { id, value }
ListNode(id, v) == [id |-> id, value |-> v]

\* nextId is the module-level counter of the file.
LinkedListInit ==
  [list |-> <<ListNode(1, 10), ListNode(2, 20), ListNode(3, 30)>>, input |-> NaN,
   indexInput |-> NaN, searchInput |-> NaN, highlighted |-> -1, found |-> -1,
   message |-> NoStep, traversing |-> FALSE, stopRef |-> FALSE, nextId |-> 4]

\* newList.splice(idx, 0, node)
Splice(list, idx, node) == SubSeq(list, 1, idx) \o <<node>> \o SubSeq(list, idx + 1, Len(list))

\* An invocation of searchValue (search = TRUE) or traverse, with the list of
\* the render it closed over.
NewListRun(search, val, list) ==
  [search |-> search, val |-> val, list |-> list, i |-> 0, pc |-> "for",
   resume |-> "for", cancelled |-> FALSE]

searchValueSteps(m) ==
  LET t == m.t
      stop == m.ui.stopRef
  IN CASE t.pc = "for" ->
            IF t.i < Len(t.list) /\ ~stop
            THEN [m EXCEPT !.ui.highlighted = t.i,
                           !.ui.message = StepText("Searching", <<t.i, At(t.list, t.i).value>>),
                           !.t.pc = "await", !.t.resume = "afterDelay"]
            ELSE [m EXCEPT !.ui.highlighted = -1,
                           !.ui.message = StepText("not found in list", <<t.val>>),
                           !.ui.traversing = FALSE, !.t.pc = "done"]
       [] t.pc = "afterDelay" ->
            IF At(t.list, t.i).value = t.val
            THEN [m EXCEPT !.ui.found = t.i,
                           !.ui.message = StepText("Found", <<t.val, t.i>>),
                           !.ui.traversing = FALSE, !.t.pc = "done"]
            ELSE [m EXCEPT !.t.i = @ + 1, !.t.pc = "for"]

traverseSteps(m) ==
  LET t == m.t
      stop == m.ui.stopRef
  IN CASE t.pc = "for" ->
            IF t.i < Len(t.list) /\ ~stop
            THEN [m EXCEPT !.ui.highlighted = t.i,
                           !.ui.message = StepText("Traversing", <<t.i, At(t.list, t.i).value>>),
                           !.t.pc = "await", !.t.resume = "afterDelay"]
            ELSE [m EXCEPT !.ui.highlighted = -1,
                           !.ui.message = StepText("Traversal complete", <<>>),
                           !.ui.traversing = FALSE, !.t.pc = "done"]
       [] t.pc = "afterDelay" -> [m EXCEPT !.t.i = @ + 1, !.t.pc = "for"]

RECURSIVE ListToYield(_)
ListToYield(m) ==
  IF m.t.pc \in {"await", "done"} THEN m
  ELSE ListToYield(IF m.t.search THEN searchValueSteps(m) ELSE traverseSteps(m))

ListResume(ui, t) == ListToYield([ui |-> ui, t |-> [t EXCEPT !.pc = t.resume]])

\* The three fields of the page, disabled while traversing.
listSetInput ==
  /\ LinearMayAct /\ linearOps' = linearOps + 1
  /\ ~LinkedList.traversing
  /\ \/ \E input \in ValueInputs : \E search \in BOOLEAN :
          LinkedList' = IF search THEN [LinkedList EXCEPT !.searchInput = input]
                        ELSE [LinkedList EXCEPT !.input = input]
     \/ \E input \in IndexInputs : LinkedList' = [LinkedList EXCEPT !.indexInput = input]
  /\ UNCHANGED <<Stack, Queue, listRuns, listTimers, notLinear>>

addToEnd ==
  /\ LinearMayAct /\ linearOps' = linearOps + 1
  /\ ~LinkedList.traversing
  /\ IF LinkedList.input.nan THEN UNCHANGED LinkedList
     ELSE LET val == LinkedList.input.val IN
          LinkedList' = [LinkedList EXCEPT
                           !.list = Append(@, ListNode(LinkedList.nextId, val)),
                           !.nextId = @ + 1, !.input = NaN,
                           !.message = StepText("Added to end", <<val>>)]
  /\ UNCHANGED <<Stack, Queue, listRuns, listTimers, notLinear>>

addToHead ==
  /\ LinearMayAct /\ linearOps' = linearOps + 1
  /\ ~LinkedList.traversing
  /\ IF LinkedList.input.nan THEN UNCHANGED LinkedList
     ELSE LET val == LinkedList.input.val IN
          LinkedList' = [LinkedList EXCEPT
                           !.list = <<ListNode(LinkedList.nextId, val)>> \o @,
                           !.nextId = @ + 1, !.input = NaN,
                           !.message = StepText("Added to head", <<val>>)]
  /\ UNCHANGED <<Stack, Queue, listRuns, listTimers, notLinear>>

addAtIndex ==
  /\ LinearMayAct /\ linearOps' = linearOps + 1
  /\ ~LinkedList.traversing
  /\ LET val == LinkedList.input.val
         idx == LinkedList.indexInput.val
     IN IF LinkedList.input.nan \/ LinkedList.indexInput.nan \/ idx < 0
           \/ idx > Len(LinkedList.list)
        THEN /\ LinkedList' = [LinkedList EXCEPT !.message = StepText("Invalid value or index", <<>>)]
             /\ UNCHANGED listTimers
        ELSE /\ LinkedList' = [LinkedList EXCEPT
                                 !.list = Splice(@, idx, ListNode(LinkedList.nextId, val)),
                                 !.nextId = @ + 1, !.input = NaN, !.indexInput = NaN,
                                 !.highlighted = idx,
                                 !.message = StepText("Inserted", <<val, idx>>)]
             /\ listTimers' = listTimers + 1
  /\ UNCHANGED <<Stack, Queue, listRuns, notLinear>>

removeFromEnd ==
  /\ LinearMayAct /\ linearOps' = linearOps + 1
  /\ ~LinkedList.traversing
  /\ IF Len(LinkedList.list) = 0
     THEN LinkedList' = [LinkedList EXCEPT !.message = StepText("List is empty!", <<>>)]
     ELSE LinkedList' = [LinkedList EXCEPT
                           !.message = StepText("Removed from end",
                                                <<LinkedList.list[Len(LinkedList.list)].value>>),
                           !.list = SubSeq(@, 1, Len(@) - 1)]
  /\ UNCHANGED <<Stack, Queue, listRuns, listTimers, notLinear>>

removeFromHead ==
  /\ LinearMayAct /\ linearOps' = linearOps + 1
  /\ ~LinkedList.traversing
  /\ IF Len(LinkedList.list) = 0
     THEN LinkedList' = [LinkedList EXCEPT !.message = StepText("List is empty!", <<>>)]
     ELSE LinkedList' = [LinkedList EXCEPT
                           !.message = StepText("Removed from head", <<LinkedList.list[1].value>>),
                           !.list = Tail(@)]
  /\ UNCHANGED <<Stack, Queue, listRuns, listTimers, notLinear>>

removeAtIndex ==
  /\ LinearMayAct /\ linearOps' = linearOps + 1
  /\ ~LinkedList.traversing
  /\ LET idx == LinkedList.indexInput.val IN
       IF LinkedList.indexInput.nan \/ idx < 0 \/ idx >= Len(LinkedList.list)
       THEN LinkedList' = [LinkedList EXCEPT !.message = StepText("Invalid index", <<>>)]
       ELSE LinkedList' = [LinkedList EXCEPT
                             !.message = StepText("Removed at index",
                                                  <<At(LinkedList.list, idx).value, idx>>),
                             !.list = RemoveAt(@, idx + 1), !.indexInput = NaN]
  /\ UNCHANGED <<Stack, Queue, listRuns, listTimers, notLinear>>

\* the Search button
searchValue ==
  /\ LinearMayAct /\ linearOps' = linearOps + 1
  /\ ~LinkedList.traversing /\ Len(listRuns) < MaxRuns
  /\ IF LinkedList.searchInput.nan THEN UNCHANGED <<LinkedList, listRuns>>
     ELSE LET ui == [LinkedList EXCEPT !.traversing = TRUE, !.found = -1, !.stopRef = FALSE]
              m == ListToYield([ui |-> ui,
                                t |-> NewListRun(TRUE, LinkedList.searchInput.val,
                                                 LinkedList.list)])
          IN /\ LinkedList' = m.ui
             /\ listRuns' = IF m.t.pc = "done" THEN listRuns ELSE Append(listRuns, m.t)
  /\ UNCHANGED <<Stack, Queue, listTimers, notLinear>>

\* the Traverse button
traverse ==
  /\ LinearMayAct /\ linearOps' = linearOps + 1
  /\ ~LinkedList.traversing /\ Len(listRuns) < MaxRuns
  /\ LET ui == [LinkedList EXCEPT !.traversing = TRUE, !.stopRef = FALSE]
         m == ListToYield([ui |-> ui, t |-> NewListRun(FALSE, 0, LinkedList.list)])
     IN /\ LinkedList' = m.ui
        /\ listRuns' = IF m.t.pc = "done" THEN listRuns ELSE Append(listRuns, m.t)
  /\ UNCHANGED <<Stack, Queue, listTimers, notLinear>>

\* the delay timer of a suspended searchValue or traverse fires
listTimer ==
  /\ \E k \in 1 .. Len(listRuns) :
       LET m == ListResume(LinkedList, listRuns[k]) IN
         /\ LinkedList' = m.ui
         /\ listRuns' = IF m.t.pc = "done" THEN RemoveAt(listRuns, k)
                        ELSE [listRuns EXCEPT ![k] = m.t]
  /\ UNCHANGED <<Stack, Queue, listTimers, linearOps, notLinear>>

\* setTimeout(() => setHighlighted(-1), 1500) of addAtIndex
listHighlightTimer ==
  /\ listTimers > 0
  /\ listTimers' = listTimers - 1
  /\ LinkedList' = [LinkedList EXCEPT !.highlighted = -1]
  /\ UNCHANGED <<Stack, Queue, listRuns, linearOps, notLinear>>

listClear ==
  /\ LinearMayAct /\ linearOps' = linearOps + 1
  /\ LinkedList' = [LinkedList EXCEPT !.stopRef = TRUE, !.list = <<>>, !.highlighted = -1,
                                      !.found = -1, !.message = StepText("List cleared", <<>>),
                                      !.traversing = FALSE]
  /\ listRuns' = [k \in 1 .. Len(listRuns) |-> [listRuns[k] EXCEPT !.cancelled = TRUE]]
  /\ UNCHANGED <<Stack, Queue, listTimers, notLinear>>

LinearNext ==
  \/ stackSetInput
  \/ push
  \/ pop
  \/ peek
  \/ stackClear
  \/ queueSetInput
  \/ enqueue
  \/ dequeue
  \/ queueClear
  \/ listSetInput
  \/ addToEnd
  \/ addToHead
  \/ addAtIndex
  \/ removeFromEnd
  \/ removeFromHead
  \/ removeAtIndex
  \/ searchValue
  \/ traverse
  \/ listTimer
  \/ listHighlightTimer
  \/ listClear

(***************************************************************************)
(* Claims about the stack, queue and linked list pages.                    *)
(***************************************************************************)
\* C16: pop on an empty stack, dequeue on an empty queue and remove-from-head
\* or remove-from-end on an empty linked list leave the structure empty, add
\* nothing to the operation history and set a non-empty message.
C16_UnderflowIsGuarded ==
  [][/\ (pop /\ Stack.stack = <<>>) =>
          /\ Stack'.stack = <<>> /\ Stack'.history = Stack.history
          /\ Stack'.message.kind # ""
     /\ (dequeue /\ Queue.queue = <<>>) =>
          /\ Queue'.queue = <<>> /\ Queue'.history = Queue.history
          /\ Queue'.message.kind # ""
     /\ ((removeFromHead \/ removeFromEnd) /\ LinkedList.list = <<>>) =>
          /\ LinkedList'.list = <<>>
          /\ LinkedList'.message.kind # ""]_vars

\* the stack was popped down to empty and popped once more
C16_Witness ==
  /\ Stack.stack = <<>>
  /\ Stack.message = StepText("Stack Underflow", <<>>)
  /\ Len(Stack.history) = 3

(***************************************************************************)
(* Trie page (src/src/pages/TrieVisualizer.tsx).  A string is a sequence   *)
(* of characters.  A trie is held as the set of its nodes, each named by   *)
(* the path of characters from the root, and the set of the nodes whose    *)
(* isEnd is true; cloneTrie copies a value, which a value already is.      *)
(* The ghost cell completed holds the words whose insertWord ended since   *)
(* the last Reset without having been stopped by it.                       *)
(***************************************************************************)
DefaultWords ==
  <<<<"c", "a", "t">>, <<"c", "a", "r">>, <<"c", "a", "r", "d">>, <<"c", "a", "r", "e">>,
    <<"d", "o">>, <<"d", "o", "g">>, <<"d", "o", "n", "e">>>>

\* what the word field may hold
TrieInputs ==
  {<<>>, <<" ", "D", "o", "t">>, <<"c", "a">>, <<"d", "o", "x">>, <<"z">>}

LowerChar(c) == CASE c = "D" -> "d" [] OTHER -> c

toLowerCase(s) == [x \in 1 .. Len(s) |-> LowerChar(s[x])]

RECURSIVE trim(_)
trim(s) ==
  IF s = <<>> THEN s
  ELSE IF Head(s) = " " THEN trim(Tail(s))
  ELSE IF s[Len(s)] = " " THEN trim(SubSeq(s, 1, Len(s) - 1))
  ELSE s

Prefixes(w) == {SubSeq(w, 1, n) : n \in 0 .. Len(w)}

\* createNode("") followed by the insertion of each word
BuildTrie(ws) ==
  [nodes |-> UNION {Prefixes(ws[x]) : x \in 1 .. Len(ws)},
   ends |-> {ws[x] : x \in 1 .. Len(ws)}]

\* if (!node.children[c]) node.children[c] = createNode(c)
addChild(root, node, c) ==
  IF Append(node, c) \in root.nodes THEN root
  ELSE [root EXCEPT !.nodes = @ \cup {Append(node, c)}]

TrieInit ==
  [root |-> BuildTrie(DefaultWords), input |-> <<>>, highlighted |-> <<>>, message |-> NoStep,
   running |-> FALSE, words |-> DefaultWords, stopRef |-> FALSE, completed |-> {}]

\* An invocation of insertWord or searchWord: the word, the root and the
\* words of the render it closed over, and its locals.
NewTrieRun(kind, ui) ==
  [kind |-> kind, word |-> toLowerCase(trim(ui.input)), root |-> ui.root, words |-> ui.words,
   newRoot |-> ui.root, node |-> <<>>, path |-> <<<<>>>>, i |-> 0,
   pc |-> "begin", resume |-> "begin", cancelled |-> FALSE]

insertWordSteps(m) ==
  LET t == m.t IN
  CASE t.pc = "begin" ->
         [m EXCEPT !.ui.running = TRUE, !.ui.stopRef = FALSE,
                   !.ui.message = StepText("Inserting", <<t.word>>), !.t.pc = "for"]
    [] t.pc = "for" ->
         IF t.i < Len(t.word) /\ ~m.ui.stopRef
         THEN LET c == t.word[t.i + 1]
                  grown == addChild(t.newRoot, t.node, c)
                  path == Append(t.path, Append(t.node, c))
              IN [m EXCEPT !.t.newRoot = grown, !.t.node = Append(t.node, c), !.t.path = path,
                           !.ui.highlighted = path, !.ui.root = grown,
                           !.t.pc = "await", !.t.resume = "next"]
         ELSE [m EXCEPT !.t.pc = "end"]
    [] t.pc = "next" -> [m EXCEPT !.t.i = @ + 1, !.t.pc = "for"]
    [] t.pc = "end" ->
         LET ended == [t.newRoot EXCEPT !.ends = @ \cup {t.node}] IN
         [m EXCEPT !.t.newRoot = ended, !.ui.root = ended,
                   !.ui.words = IF Has(t.words, t.word) THEN @ ELSE Append(@, t.word),
                   !.ui.message = StepText("Inserted", <<t.word>>),
                   !.ui.input = <<>>, !.ui.highlighted = <<>>, !.ui.running = FALSE,
                   !.ui.completed = IF t.cancelled THEN @ ELSE @ \cup {t.word},
                   !.t.pc = "done"]

searchWordSteps(m) ==
  LET t == m.t IN
  CASE t.pc = "begin" ->
         [m EXCEPT !.ui.running = TRUE, !.ui.stopRef = FALSE,
                   !.ui.message = StepText("Searching for", <<t.word>>), !.t.pc = "for"]
    [] t.pc = "for" ->
         IF t.i < Len(t.word) /\ ~m.ui.stopRef
         THEN LET c == t.word[t.i + 1] IN
              IF Append(t.node, c) \notin t.root.nodes
              THEN [m EXCEPT !.ui.message = StepText("not found", <<t.word, <<c>>>>),
                             !.ui.highlighted = <<>>, !.ui.running = FALSE, !.t.pc = "done"]
              ELSE LET path == Append(t.path, Append(t.node, c)) IN
                   [m EXCEPT !.t.node = Append(t.node, c), !.t.path = path,
                             !.ui.highlighted = path,
                             !.t.pc = "await", !.t.resume = "next"]
         ELSE [m EXCEPT !.t.pc = "end"]
    [] t.pc = "next" -> [m EXCEPT !.t.i = @ + 1, !.t.pc = "for"]
    [] t.pc = "end" ->
         [m EXCEPT !.ui.message = IF t.node \in t.root.ends THEN StepText("found", <<t.word>>)
                                  ELSE StepText("prefix", <<t.word>>),
                   !.ui.running = FALSE, !.t.pc = "done"]

TrieStep(m) == IF m.t.kind = "insert" THEN insertWordSteps(m) ELSE searchWordSteps(m)

RECURSIVE TrieToYield(_)
TrieToYield(m) ==
  IF m.t.pc \in {"await", "done"} THEN m ELSE TrieToYield(TrieStep(m))

\* Everything that runs when the delay timer of the invocation t fires.
TrieResume(ui, t) == TrieToYield([ui |-> ui, t |-> [t EXCEPT !.pc = t.resume]])

\* insertWord / searchWord past their guard, up to the first delay
TrieStart(kind, ui) == TrieToYield([ui |-> ui, t |-> NewTrieRun(kind, ui)])

CancelTrieRuns(runs) == [k \in 1 .. Len(runs) |-> [runs[k] EXCEPT !.cancelled = TRUE]]

TrieMayAct == trieOps < MaxTrieOps

\* the word field is disabled while running
trieSetInput ==
  /\ ~Trie.running /\ TrieMayAct
  /\ trieOps' = trieOps + 1
  /\ \E input \in TrieInputs : Trie' = [Trie EXCEPT !.input = input]
  /\ UNCHANGED <<trieRuns, notTrie>>

\* if (!word || running) return; then insertWord up to its first delay
insertWord ==
  /\ Len(trieRuns) < MaxRuns /\ TrieMayAct
  /\ trieOps' = trieOps + 1
  /\ IF toLowerCase(trim(Trie.input)) = <<>> \/ Trie.running
     THEN UNCHANGED <<Trie, trieRuns>>
     ELSE LET m == TrieStart("insert", Trie) IN
          /\ Trie' = m.ui
          /\ trieRuns' = IF m.t.pc = "done" THEN trieRuns ELSE Append(trieRuns, m.t)
  /\ UNCHANGED notTrie

\* if (!word || running) return; then searchWord up to its first delay
searchWord ==
  /\ Len(trieRuns) < MaxRuns /\ TrieMayAct
  /\ trieOps' = trieOps + 1
  /\ IF toLowerCase(trim(Trie.input)) = <<>> \/ Trie.running
     THEN UNCHANGED <<Trie, trieRuns>>
     ELSE LET m == TrieStart("search", Trie) IN
          /\ Trie' = m.ui
          /\ trieRuns' = IF m.t.pc = "done" THEN trieRuns ELSE Append(trieRuns, m.t)
  /\ UNCHANGED notTrie

trieTimer ==
  /\ \E k \in 1 .. Len(trieRuns) :
       LET m == TrieResume(Trie, trieRuns[k]) IN
         /\ Trie' = m.ui
         /\ trieRuns' = IF m.t.pc = "done" THEN RemoveAt(trieRuns, k)
                        ELSE [trieRuns EXCEPT ![k] = m.t]
  /\ UNCHANGED <<trieOps, notTrie>>

resetTrie ==
  /\ TrieMayAct
  /\ trieOps' = trieOps + 1
  /\ Trie' = [Trie EXCEPT !.stopRef = TRUE, !.root = BuildTrie(DefaultWords),
                          !.words = DefaultWords, !.highlighted = <<>>, !.message = NoStep,
                          !.running = FALSE, !.completed = {}]
  /\ trieRuns' = CancelTrieRuns(trieRuns)
  /\ UNCHANGED notTrie

TrieNext ==
  \/ trieSetInput
  \/ insertWord
  \/ searchWord
  \/ trieTimer
  \/ resetTrie

(***************************************************************************)
(* Claims about the trie page.                                             *)
(***************************************************************************)
TrieContinuations ==
  [k \in 1 .. Len(trieRuns) |-> TrieResume(Trie, trieRuns[k])]

RECURSIVE TrieToEnd(_)
\* an invocation run through all of its delays with nothing in between
TrieToEnd(m) ==
  IF m.t.pc = "done" THEN m
  ELSE IF m.t.pc = "await" THEN TrieToEnd([m EXCEPT !.t.pc = m.t.resume])
  ELSE TrieToEnd(TrieStep(m))

\* what searchWord reports for word on the trie root when nothing interrupts it
searchOutcome(root, word) ==
  TrieToEnd([ui |-> [TrieInit EXCEPT !.root = root, !.input = word],
             t |-> NewTrieRun("search", [TrieInit EXCEPT !.root = root, !.input = word])]).ui.message

\* the strings searched in the claims
Probes == {toLowerCase(trim(w)) : w \in TrieInputs} \cup Range(DefaultWords) \cup {<<"d">>}

IsPrefixOf(p, w) == Len(p) <= Len(w) /\ SubSeq(w, 1, Len(p)) = p

\* the first character of w for which the trie has no path
FirstMissing(root, w) ==
  LET missing == {n \in 1 .. Len(w) : SubSeq(w, 1, n) \notin root.nodes}
  IN w[CHOOSE n \in missing : \A o \in missing : n <= o]

\* C20: whenever a search can be started, a search of the displayed trie
\* reports found for every word whose insertWord ran to completion since
\* the last Reset and for every word the trie was built with; it reports
\* 'prefix but not a complete word' for a string that is a proper prefix of
\* stored words and not a stored word, and not found with the first missing
\* character for a string with no path; when an insertWord(w) that Reset
\* did not stop ends, the trie it leaves finds w and every string found on
\* the trie it started from; and a searchWord that Reset did not stop
\* publishes the report of its trie.
C20_InsertThenSearch ==
  /\ ~Trie.running =>
       /\ \A w \in Trie.completed \cup Range(DefaultWords) :
            searchOutcome(Trie.root, w) = StepText("found", <<w>>)
       /\ \A w \in Probes \ {<<>>} :
            /\ (w \notin Trie.root.ends /\ \E e \in Trie.root.ends : IsPrefixOf(w, e))
                 => searchOutcome(Trie.root, w) = StepText("prefix", <<w>>)
            /\ w \notin Trie.root.nodes
                 => searchOutcome(Trie.root, w)
                      = StepText("not found", <<w, <<FirstMissing(Trie.root, w)>>>>)
       /\ \A input \in TrieInputs :
            LET m == TrieStart("search", [Trie EXCEPT !.input = input]) IN
              (toLowerCase(trim(input)) # <<>> /\ m.t.pc = "done")
                => m.ui.message = searchOutcome(Trie.root, toLowerCase(trim(input)))
  /\ \A k \in 1 .. Len(trieRuns) :
       LET r == trieRuns[k]
           m == TrieContinuations[k]
       IN /\ (r.kind = "insert" /\ ~r.cancelled /\ m.t.pc = "done") =>
               /\ searchOutcome(m.ui.root, r.word) = StepText("found", <<r.word>>)
               /\ \A w \in Probes \ {<<>>} :
                    searchOutcome(r.root, w).kind = "found"
                      => searchOutcome(m.ui.root, w).kind = "found"
          /\ (r.kind = "search" /\ ~r.cancelled /\ m.t.pc = "done") =>
               m.ui.message = searchOutcome(r.root, r.word)

\* C31: whenever no insertWord or searchWord is running or suspended, the
\* 'Words in Trie' list holds exactly the strings that a search of the
\* displayed trie reports as found.
C31_WordsMatchTrie ==
  (trieRuns = <<>> /\ ~Trie.running) =>
    \A w \in (Probes \cup Range(Trie.words) \cup Trie.root.ends) \ {<<>>} :
      Has(Trie.words, w) <=> searchOutcome(Trie.root, w) = StepText("found", <<w>>)

\* C32: a searchWord that publishes the message that its word was found,
\* stopped by Reset or not, publishes it for a word that the displayed trie
\* stores as a complete word.
C32_FoundOnlyIfStored ==
  \A k \in 1 .. Len(trieRuns) :
    LET r == trieRuns[k]
        m == TrieContinuations[k]
    IN (r.kind = "search" /\ m.t.pc = "done" /\ m.ui.message = StepText("found", <<r.word>>))
         => /\ r.word \in m.ui.root.ends
            /\ Prefixes(r.word) \subseteq m.ui.root.nodes

(***************************************************************************)
(* Specifications: one per page.  The pages share nothing, so each         *)
(* specification moves one page and leaves the others as constructed.      *)
(***************************************************************************)
SortPageInit ==
  /\ \E arr \in generateArray(MaxLen) : Sorting = [SortingInit EXCEPT !.array = arr]
  /\ sortRuns = <<>>

\* the sorting page left alone, showing one of its initial arrays
SortPageIdle == Sorting = SortingInit /\ sortRuns = <<>>

HeapPageInit == Heap = HeapInit /\ heapRuns = <<>> /\ heapOps = 0

SearchPageInit == Searching = SearchingInit /\ searchRuns = <<>> /\ searchOps = 0

TreePageInit == BinaryTree = BinaryTreeInit /\ treeRuns = <<>> /\ treeOps = 0

GraphPageInit == Graph = GraphInit /\ graphRuns = <<>> /\ graphOps = 0

HashPageInit == HashTable = HashTableInit /\ hashTimers = 0 /\ hashOps = 0

DPPageInit == DP = DPInit /\ dpRuns = <<>> /\ dpTimers = <<>> /\ dpOps = 0

LinearPagesInit ==
  /\ Stack = StackInit /\ Queue = QueueInit
  /\ LinkedList = LinkedListInit /\ listRuns = <<>> /\ listTimers = 0
  /\ linearOps = 0

TriePageInit == Trie = TrieInit /\ trieRuns = <<>> /\ trieOps = 0

\* the pages added after the first five, as constructed
MorePagesInit == HashPageInit /\ DPPageInit /\ LinearPagesInit /\ TriePageInit

SortInit ==
  SortPageInit /\ HeapPageInit /\ SearchPageInit /\ TreePageInit /\ GraphPageInit /\ MorePagesInit

SpecSort == SortInit /\ [][SortNext]_vars

\* The sorting page showing a custom array of up to SoloLen values with any
\* algorithm selected, and nothing pressed but Sort.
SoloInit ==
  /\ \E n \in 2 .. SoloLen : \E values \in ArraysOfLen(n) : \E algo \in AlgoType :
       Sorting = [SortingInit EXCEPT !.array = values, !.size = n, !.algo = algo]
  /\ sortRuns = <<>>
  /\ HeapPageInit /\ SearchPageInit /\ TreePageInit /\ GraphPageInit /\ MorePagesInit

SoloNext ==
  \/ run
  \/ sortTimer

SpecSortSolo == SoloInit /\ [][SoloNext]_vars

HeapSpecInit ==
  SortPageIdle /\ HeapPageInit /\ SearchPageInit /\ TreePageInit /\ GraphPageInit /\ MorePagesInit

SpecHeap == HeapSpecInit /\ [][HeapNext]_vars

SearchSpecInit ==
  /\ SortPageIdle /\ HeapPageInit /\ TreePageInit /\ GraphPageInit /\ MorePagesInit
  /\ \E arr \in RandomSortedArrays : Searching = [SearchingInit EXCEPT !.array = arr]
  /\ searchRuns = <<>> /\ searchOps = 0

SpecSearch == SearchSpecInit /\ [][SearchNext]_vars

TreeSpecInit ==
  SortPageIdle /\ HeapPageInit /\ SearchPageInit /\ TreePageInit /\ GraphPageInit /\ MorePagesInit

SpecTree == TreeSpecInit /\ [][TreeNext]_vars

GraphSpecInit ==
  SortPageIdle /\ HeapPageInit /\ SearchPageInit /\ TreePageInit /\ GraphPageInit /\ MorePagesInit

SpecGraph == GraphSpecInit /\ [][GraphNext]_vars

FirstPagesInit ==
  SortPageIdle /\ HeapPageInit /\ SearchPageInit /\ TreePageInit /\ GraphPageInit

HashSpecInit == FirstPagesInit /\ MorePagesInit

SpecHash == HashSpecInit /\ [][HashNext]_vars

DPSpecInit == FirstPagesInit /\ MorePagesInit

SpecDP == DPSpecInit /\ [][DPNext]_vars

\* Every timer that is pending fires: the 100 ms timer of run() and the delay
\* timer of a suspended run.  Button presses are not forced.
SpecDPFair == SpecDP /\ WF_vars(dpDispatch) /\ WF_vars(dpTimer)

LinearSpecInit == FirstPagesInit /\ MorePagesInit

SpecLinear == LinearSpecInit /\ [][LinearNext]_vars

TrieSpecInit == FirstPagesInit /\ MorePagesInit

SpecTrie == TrieSpecInit /\ [][TrieNext]_vars

====
